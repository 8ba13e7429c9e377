------------------------------ MODULE DocIndex ------------------------------
(***************************************************************************)
(* The asynchronous document pipeline of the Atlas RAG platform: the       *)
(* upload and delete handlers of the API (app/api/document.py), the Celery *)
(* task that indexes one document (app/tasks/document_index.py), the       *)
(* indexing attempt it runs (app/services/document_index_service.py with   *)
(* app/rag/chunker.py and app/rag/embeddings.py), and what they share: the *)
(* documents and documents_chunks tables, the Qdrant collection, the Redis *)
(* lock lock:doc_index:<id> and the broker queue.                          *)
(*                                                                         *)
(* A step is the longest piece of code that touches one shared store once: *)
(* a database transaction without foreign calls inside, a Redis command, a *)
(* Qdrant request.  The delete handler holds a transaction open across a   *)
(* Qdrant request, so it is several steps.  One chunk id stands for one    *)
(* Qdrant upsert batch (128 chunks in the code).                           *)
(*                                                                         *)
(* Only the upload handler enqueues a task, so a document has exactly one  *)
(* Celery task id.  Redeliveries and retries of that task keep the id, so  *)
(* several executions of the same document present the same lock value.    *)
(***************************************************************************)
EXTENDS Naturals, FiniteSets

CONSTANTS
    Doc,          \* documents
    NoDoc,        \* what an idle worker process works on
    Exec,         \* worker processes; each runs one delivery at a time
    NoExec,       \* the lock key is absent
    MaxRetries,   \* DOC_INDEX_MAX_RETRIES
    MaxBatches,   \* bound on the chunk batches one conversion yields
    FaultBudget   \* bound on the faults of each kind in a behaviour

(* The faults a deployment meets:
     crash       an API or worker process dies,
     redeliver   the broker's visibility timeout passes during an execution,
     stall       the lock key vanishes under a live heartbeat (a process
                 stopped for longer than the TTL, a Redis failover),
     heartbeat   a lock refresh raises a Redis error,
     redis       another Redis command of the task raises an error,
     db          a status update of the task raises a database error,
     broker      the broker refuses the message of a retry.                *)
FaultKind == {"crash", "redeliver", "stall", "heartbeat", "redis", "db", "broker"}

ASSUME DocIndexAssumption ==
    /\ NoDoc \notin Doc
    /\ NoExec \notin Exec
    /\ MaxRetries \in Nat
    /\ MaxBatches \in Nat \ {0}
    /\ FaultBudget \in [FaultKind -> Nat]

VARIABLES
    \* PostgreSQL
    status,     \* documents.status, "absent" before the insert, "deleted" after
    chunks,     \* ids of the committed documents_chunks rows of a document
    nextId,     \* the sequence behind documents_chunks.id
    \* the other stores
    file,       \* the uploaded file is on disk
    points,     \* ids of the Qdrant points whose payload names the document
    lock,       \* the execution whose SET NX created lock:doc_index:<id>
    queue,      \* waiting messages of the document's task, by retry count
    dead,       \* documents with a record in queue:doc_index:dead
    \* the API handlers and the worker processes
    upload,     \* progress of the upload request of a document
    del,        \* progress of a delete request of a document
    delRows,    \* the chunk rows its open transaction has deleted
    pc,         \* where each worker process is in index_document_task
    job,        \* the document of its delivery
    attempt,    \* self.request.retries of its delivery
    redelivered,\* the broker has handed its delivery out once more
    locked,     \* lock_acquired
    lost,       \* lock_lost, set by the heartbeat thread
    ids,        \* the chunk rows the attempt works on
    todo,       \* points it still has to upsert, then points to delete
    outcome,    \* how run_document_index ended
    \* history and bounds
    dropped,    \* documents whose task ended because the lock stayed busy
    purged,     \* documents whose points a delete request has removed
    faults      \* faults so far, by kind

stores   == <<status, chunks, nextId, file, points>>
broker   == <<queue, dead, dropped>>
api      == <<upload, del, delRows, purged>>
delivery == <<job, attempt, redelivered>>
lease    == <<locked, lost>>
work     == <<ids, todo>>
worker   == <<pc, delivery, lease, work, outcome>>

vars == <<stores, lock, broker, api, worker, faults>>

-----------------------------------------------------------------------------
Status     == {"absent", "uploaded", "indexing", "indexed", "failed", "deleted"}
UploadPc   == {"none", "saved", "inserted", "enqueueFailed", "done",
               "rejected", "crashed"}
DeletePc   == {"none", "vectors", "commit", "files"}
ExecPc     == {"idle", "acquire", "busy", "load", "convert", "replace",
               "reread", "upsert", "list", "purge", "embed", "finish",
               "release", "fail", "record", "retry", "ack"}
Outcome    == {"none", "ok", "missing", "error"}

(* The row of d can be read, updated and referenced. *)
RowExists(d) == status[d] \notin {"absent", "deleted"}

(* Heartbeats of e keep the lock key of its document alive: the thread runs
   from the acquisition to the release unless a refresh has failed.        *)
Beating(e) == locked[e] /\ ~lost[e]

(* The open transaction of a delete request holds row locks on the chunks
   it has deleted.                                                         *)
ChunkRowsLocked(d) == del[d] \in {"vectors", "commit"} /\ delRows[d] # {}

Fault(k) ==
    /\ faults[k] < FaultBudget[k]
    /\ faults' = [faults EXCEPT ![k] = @ + 1]

(* One more message of the document's task, at retry count r. *)
Send(d, r) == queue' = [queue EXCEPT ![d][r] = @ + 1]

(* The next step of e on its normal path. *)
Goto(e, l) == pc' = [pc EXCEPT ![e] = l]

(* The attempt raised: run_document_index rolls back and enters finally. *)
Raise(e) == Goto(e, "release") /\ outcome' = [outcome EXCEPT ![e] = "error"]

(* The process forgets its delivery. *)
BecomeIdle(e) ==
    /\ Goto(e, "idle")
    /\ job' = [job EXCEPT ![e] = NoDoc]
    /\ attempt' = [attempt EXCEPT ![e] = 0]
    /\ redelivered' = [redelivered EXCEPT ![e] = FALSE]
    /\ locked' = [locked EXCEPT ![e] = FALSE]
    /\ lost' = [lost EXCEPT ![e] = FALSE]
    /\ ids' = [ids EXCEPT ![e] = {}]
    /\ todo' = [todo EXCEPT ![e] = {}]
    /\ outcome' = [outcome EXCEPT ![e] = "none"]

Init ==
    /\ status = [d \in Doc |-> "absent"]
    /\ chunks = [d \in Doc |-> {}]
    /\ nextId = 1
    /\ file = [d \in Doc |-> FALSE]
    /\ points = [d \in Doc |-> {}]
    /\ lock = [d \in Doc |-> NoExec]
    /\ queue = [d \in Doc |-> [r \in 0..MaxRetries |-> 0]]
    /\ dead = {}
    /\ dropped = {}
    /\ upload = [d \in Doc |-> "none"]
    /\ del = [d \in Doc |-> "none"]
    /\ delRows = [d \in Doc |-> {}]
    /\ purged = {}
    /\ pc = [e \in Exec |-> "idle"]
    /\ job = [e \in Exec |-> NoDoc]
    /\ attempt = [e \in Exec |-> 0]
    /\ redelivered = [e \in Exec |-> FALSE]
    /\ locked = [e \in Exec |-> FALSE]
    /\ lost = [e \in Exec |-> FALSE]
    /\ ids = [e \in Exec |-> {}]
    /\ todo = [e \in Exec |-> {}]
    /\ outcome = [e \in Exec |-> "none"]
    /\ faults = [k \in FaultKind |-> 0]

-----------------------------------------------------------------------------
(* The upload request. *)

SaveFile(d) ==
    /\ upload[d] = "none"
    /\ upload' = [upload EXCEPT ![d] = "saved"]
    /\ file' = [file EXCEPT ![d] = TRUE]
    /\ UNCHANGED <<status, chunks, nextId, points, lock, broker,
                   del, delRows, purged, worker, faults>>

InsertRow(d) ==
    /\ upload[d] = "saved"
    /\ \/ /\ upload' = [upload EXCEPT ![d] = "inserted"]
          /\ status' = [status EXCEPT ![d] = "uploaded"]
          /\ UNCHANGED file
       \/ /\ upload' = [upload EXCEPT ![d] = "rejected"]
          /\ file' = [file EXCEPT ![d] = FALSE]
          /\ UNCHANGED status
    /\ UNCHANGED <<chunks, nextId, points, lock, broker, del, delRows, purged,
                   worker, faults>>

(* apply_async succeeds, or raises; a connection that breaks after the
   broker took the message raises too.                                     *)
Enqueue(d) ==
    /\ upload[d] = "inserted"
    /\ \/ upload' = [upload EXCEPT ![d] = "done"] /\ Send(d, 0)
       \/ /\ upload' = [upload EXCEPT ![d] = "enqueueFailed"]
          /\ Send(d, 0) \/ UNCHANGED queue
    /\ UNCHANGED <<stores, lock, dead, dropped, del, delRows, purged, worker,
                   faults>>

MarkEnqueueFailed(d) ==
    /\ upload[d] = "enqueueFailed"
    /\ upload' = [upload EXCEPT ![d] = "done"]
    /\ status' = IF RowExists(d) THEN [status EXCEPT ![d] = "failed"] ELSE status
    /\ UNCHANGED <<chunks, nextId, file, points, lock, broker, del, delRows,
                   purged, worker, faults>>

(* The API process dies: whatever the request committed stays. *)
UploadCrash(d) ==
    /\ upload[d] \in {"saved", "inserted", "enqueueFailed"}
    /\ Fault("crash")
    /\ upload' = [upload EXCEPT ![d] = "crashed"]
    /\ UNCHANGED <<stores, lock, broker, del, delRows, purged, worker>>

UploadStep(d) == SaveFile(d) \/ InsertRow(d) \/ Enqueue(d) \/ MarkEnqueueFailed(d)

-----------------------------------------------------------------------------
(* The delete request: its transaction is open from DeleteBegin on. *)

DeleteBegin(d) ==
    /\ del[d] = "none"
    /\ RowExists(d)
    /\ del' = [del EXCEPT ![d] = "vectors"]
    /\ delRows' = [delRows EXCEPT ![d] = chunks[d]]
    /\ UNCHANGED <<stores, lock, broker, upload, purged, worker, faults>>

(* The transaction rolls back, or the request is over. *)
EndDelete(d) ==
    /\ del' = [del EXCEPT ![d] = "none"]
    /\ delRows' = [delRows EXCEPT ![d] = {}]

(* Qdrant removes the points and the handler goes on, or the request raises,
   before or after Qdrant acted on it, and the transaction rolls back.     *)
DeleteVectors(d) ==
    /\ del[d] = "vectors"
    /\ \/ /\ points' = [points EXCEPT ![d] = {}]
          /\ purged' = purged \cup {d}
          /\ \/ del' = [del EXCEPT ![d] = "commit"] /\ UNCHANGED delRows
             \/ EndDelete(d)
       \/ EndDelete(d) /\ UNCHANGED <<points, purged>>
    /\ UNCHANGED <<status, chunks, nextId, file, lock, broker, upload, worker,
                   faults>>

(* The foreign key of documents_chunks refuses the commit when chunks of d
   were committed after DeleteBegin.                                       *)
DeleteCommit(d) ==
    /\ del[d] = "commit"
    /\ \/ /\ chunks[d] \subseteq delRows[d]
          /\ status' = [status EXCEPT ![d] = "deleted"]
          /\ chunks' = [chunks EXCEPT ![d] = {}]
          /\ del' = [del EXCEPT ![d] = "files"]
          /\ delRows' = [delRows EXCEPT ![d] = {}]
       \/ /\ ~(chunks[d] \subseteq delRows[d])
          /\ EndDelete(d)
          /\ UNCHANGED <<status, chunks>>
    /\ UNCHANGED <<nextId, file, points, lock, broker, upload, purged, worker,
                   faults>>

DeleteFiles(d) ==
    /\ del[d] = "files"
    /\ EndDelete(d)
    /\ file' = [file EXCEPT ![d] = FALSE]
    /\ UNCHANGED <<status, chunks, nextId, points, lock, broker, upload, purged,
                   worker, faults>>

DeleteCrash(d) ==
    /\ del[d] # "none"
    /\ Fault("crash")
    /\ EndDelete(d)
    /\ UNCHANGED <<stores, lock, broker, upload, purged, worker>>

DeleteStep(d) == DeleteVectors(d) \/ DeleteCommit(d) \/ DeleteFiles(d)

-----------------------------------------------------------------------------
(* The Celery task: taking a delivery and the lock. *)

Take(e, d, r) ==
    /\ pc[e] = "idle"
    /\ queue[d][r] > 0
    /\ queue' = [queue EXCEPT ![d][r] = @ - 1]
    /\ Goto(e, "acquire")
    /\ job' = [job EXCEPT ![e] = d]
    /\ attempt' = [attempt EXCEPT ![e] = r]
    /\ UNCHANGED <<stores, lock, dead, dropped, api, redelivered, lease, work,
                   outcome, faults>>

(* Mutant: SET without NX. *)
AcquireWithoutNx(e) ==
    /\ pc[e] = "acquire"
    /\ lock' = [lock EXCEPT ![job[e]] = e]
    /\ locked' = [locked EXCEPT ![e] = TRUE]
    /\ Goto(e, "load")
    /\ UNCHANGED <<stores, broker, api, delivery, lost, work, outcome, faults>>

Acquire(e) ==
    /\ pc[e] = "acquire"
    /\ \/ /\ lock[job[e]] = NoExec
          /\ lock' = [lock EXCEPT ![job[e]] = e]
          /\ locked' = [locked EXCEPT ![e] = TRUE]
          /\ Goto(e, "load")
       \/ /\ lock[job[e]] # NoExec
          /\ Goto(e, "busy")
          /\ UNCHANGED <<lock, locked>>
    /\ UNCHANGED <<stores, broker, api, delivery, lost, work, outcome, faults>>

(* Redis raises; the SET may have taken effect before the answer was lost. *)
AcquireError(e) ==
    /\ pc[e] = "acquire"
    /\ Fault("redis")
    /\ Raise(e)
    /\ \/ lock[job[e]] = NoExec /\ lock' = [lock EXCEPT ![job[e]] = e]
       \/ UNCHANGED lock
    /\ UNCHANGED <<stores, broker, api, delivery, lease, work>>

(* Mutant: a busy lock is retried without a limit. *)
LockBusyUnlimited(e) ==
    /\ pc[e] = "busy"
    /\ Goto(e, "retry")
    /\ UNCHANGED <<stores, lock, broker, api, delivery, lease, work, outcome,
                   faults>>

(* DocumentIndexLockBusy: self.retry publishes the next attempt, or raises
   the exception itself once the retries are used up.                      *)
LockBusy(e) ==
    /\ pc[e] = "busy"
    /\ \/ /\ attempt[e] < MaxRetries
          /\ Goto(e, "retry")
          /\ UNCHANGED dropped
       \/ /\ attempt[e] = MaxRetries
          /\ Goto(e, "ack")
          /\ dropped' = dropped \cup {job[e]}
    /\ UNCHANGED <<stores, lock, queue, dead, api, delivery, lease, work,
                   outcome, faults>>

-----------------------------------------------------------------------------
(* The indexing attempt, under the lock. *)

(* Mutant: an indexed document keeps its status while it is indexed anew. *)
LoadWithoutStatus(e) ==
    /\ pc[e] = "load"
    /\ RowExists(job[e])
    /\ Goto(e, "convert")
    /\ UNCHANGED <<stores, lock, broker, api, delivery, lease, work, outcome,
                   faults>>

(* The document is marked indexing; it may be gone, or go between the
   query and the update.                                                   *)
Load(e) ==
    /\ pc[e] = "load"
    /\ \/ /\ RowExists(job[e])
          /\ status' = [status EXCEPT ![job[e]] = "indexing"]
          /\ Goto(e, "convert")
          /\ UNCHANGED outcome
       \/ /\ ~RowExists(job[e])
          /\ Goto(e, "release")
          /\ \E o \in {"missing", "error"} : outcome' = [outcome EXCEPT ![e] = o]
          /\ UNCHANGED status
    /\ UNCHANGED <<chunks, nextId, file, points, lock, broker, api, delivery,
                   lease, work, faults>>

(* Conversion and chunking of the file; it raises when the file is missing,
   unreadable or empty, or after RAG_DOCUMENT_TIMEOUT_SECONDS.             *)
Convert(e) ==
    /\ pc[e] = "convert"
    /\ \/ file[job[e]] /\ Goto(e, "replace") /\ UNCHANGED outcome
       \/ Raise(e)
    /\ UNCHANGED <<stores, lock, broker, api, delivery, lease, work, faults>>

(* One transaction deletes the old chunk rows and inserts n new ones.  The
   delete waits for a delete request that has deleted the same rows.       *)
ReplaceChunks(e) ==
    /\ pc[e] = "replace"
    /\ ~ChunkRowsLocked(job[e])
    /\ \/ /\ RowExists(job[e])
          /\ \E n \in 1..MaxBatches :
               /\ ids' = [ids EXCEPT ![e] = nextId .. nextId + n - 1]
               /\ nextId' = nextId + n
          /\ chunks' = [chunks EXCEPT ![job[e]] = ids'[e]]
          /\ Goto(e, "reread")
          /\ UNCHANGED outcome
       \/ /\ ~RowExists(job[e])
          /\ Raise(e)
          /\ UNCHANGED <<chunks, nextId, ids>>
    /\ UNCHANGED <<status, file, points, lock, broker, api, delivery, lease,
                   todo, faults>>

(* The refresh of the rows just inserted, which raises when one is gone;
   ensure_lock; then generate_for_chunks reads the chunk rows anew.  Without
   chunks there is nothing to embed and it returns 0.                      *)
ReadChunks(e) ==
    /\ pc[e] = "reread"
    /\ \/ /\ lost[e] \/ ~(ids[e] \subseteq chunks[job[e]])
          /\ Raise(e)
          /\ UNCHANGED work
       \/ /\ ~lost[e]
          /\ ids' = [ids EXCEPT ![e] = chunks[job[e]]]
          /\ todo' = [todo EXCEPT ![e] = chunks[job[e]]]
          /\ Goto(e, IF chunks[job[e]] = {} THEN "finish" ELSE "upsert")
          /\ UNCHANGED outcome
    /\ UNCHANGED <<stores, lock, broker, api, delivery, lease, faults>>

(* One batch reaches Qdrant and is answered; or encoding or the request
   raises, the latter before or after Qdrant acted on it.                  *)
UpsertBatch(e) ==
    /\ pc[e] = "upsert"
    /\ \/ \E i \in todo[e] :
             /\ points' = [points EXCEPT ![job[e]] = @ \cup {i}]
             /\ \/ /\ todo' = [todo EXCEPT ![e] = @ \ {i}]
                   /\ Goto(e, IF todo[e] = {i} THEN "list" ELSE "upsert")
                   /\ UNCHANGED outcome
                \/ Raise(e) /\ UNCHANGED todo
       \/ Raise(e) /\ UNCHANGED <<points, todo>>
    /\ UNCHANGED <<status, chunks, nextId, file, lock, broker, api, delivery,
                   lease, ids, faults>>

(* Mutant: the points of earlier attempts are left in Qdrant. *)
ListPointsIgnored(e) ==
    /\ pc[e] = "list"
    /\ Goto(e, "embed")
    /\ UNCHANGED <<stores, lock, broker, api, delivery, lease, work, outcome,
                   faults>>

(* The points of the document that none of its chunk rows has are stale. *)
ListPoints(e) ==
    /\ pc[e] = "list"
    /\ \/ /\ todo' = [todo EXCEPT ![e] = points[job[e]] \ ids[e]]
          /\ Goto(e, IF points[job[e]] \subseteq ids[e] THEN "embed" ELSE "purge")
          /\ UNCHANGED outcome
       \/ Raise(e) /\ UNCHANGED todo
    /\ UNCHANGED <<stores, lock, broker, api, delivery, lease, ids, faults>>

DeleteStale(e) ==
    /\ pc[e] = "purge"
    /\ \/ /\ points' = [points EXCEPT ![job[e]] = @ \ todo[e]]
          /\ \/ /\ todo' = [todo EXCEPT ![e] = {}]
                /\ Goto(e, "embed")
                /\ UNCHANGED outcome
             \/ Raise(e) /\ UNCHANGED todo
       \/ Raise(e) /\ UNCHANGED <<points, todo>>
    /\ UNCHANGED <<status, chunks, nextId, file, lock, broker, api, delivery,
                   lease, ids, faults>>

(* The chunk_embeddings rows refer to the chunk rows read before; the
   insert waits for a delete request that holds those rows.                *)
CommitEmbeddings(e) ==
    /\ pc[e] = "embed"
    /\ ~ChunkRowsLocked(job[e])
    /\ \/ ids[e] \subseteq chunks[job[e]] /\ Goto(e, "finish") /\ UNCHANGED outcome
       \/ ~(ids[e] \subseteq chunks[job[e]]) /\ Raise(e)
    /\ UNCHANGED <<stores, lock, broker, api, delivery, lease, work, faults>>

(* ensure_lock, then the commit of status indexed. *)
Finish(e) ==
    /\ pc[e] = "finish"
    /\ \/ /\ ~lost[e] /\ RowExists(job[e])
          /\ status' = [status EXCEPT ![job[e]] = "indexed"]
          /\ Goto(e, "release")
          /\ outcome' = [outcome EXCEPT ![e] = "ok"]
       \/ /\ lost[e] \/ ~RowExists(job[e])
          /\ Raise(e)
          /\ UNCHANGED status
    /\ UNCHANGED <<chunks, nextId, file, points, lock, broker, api, delivery,
                   lease, work, faults>>

(* finally: the heartbeat stops and the key is deleted if its value is the
   task id.  Every execution of the document has that id, so a lock taken
   by another execution is deleted as well.  A Redis error is swallowed.   *)
Release(e) ==
    /\ pc[e] = "release"
    /\ Goto(e, IF outcome[e] = "error" THEN "fail" ELSE "ack")
    /\ locked' = [locked EXCEPT ![e] = FALSE]
    /\ lost' = [lost EXCEPT ![e] = FALSE]
    /\ ids' = [ids EXCEPT ![e] = {}]
    /\ todo' = [todo EXCEPT ![e] = {}]
    /\ \/ /\ lock' = IF locked[e] THEN [lock EXCEPT ![job[e]] = NoExec] ELSE lock
          /\ UNCHANGED faults
       \/ /\ locked[e]
          /\ Fault("redis")
          /\ UNCHANGED lock
    /\ UNCHANGED <<stores, broker, api, delivery, outcome>>

-----------------------------------------------------------------------------
(* The Celery task: what it does with the outcome, after the release. *)

(* _update_failed_document, whose own errors are swallowed. *)
MarkFailed(d, s) ==
    \/ /\ status' = IF RowExists(d) THEN [status EXCEPT ![d] = s] ELSE status
       /\ UNCHANGED faults
    \/ /\ Fault("db")
       /\ UNCHANGED status

(* Mutant: the last error is swallowed. *)
AttemptFailedSilently(e) ==
    /\ pc[e] = "fail"
    /\ \/ attempt[e] < MaxRetries /\ Goto(e, "retry")
       \/ attempt[e] = MaxRetries /\ Goto(e, "ack")
    /\ UNCHANGED <<stores, lock, broker, api, delivery, lease, work, outcome,
                   faults>>

AttemptFailed(e) ==
    /\ pc[e] = "fail"
    /\ \/ /\ attempt[e] < MaxRetries
          /\ MarkFailed(job[e], "uploaded")
          /\ Goto(e, "retry")
       \/ /\ attempt[e] = MaxRetries
          /\ MarkFailed(job[e], "failed")
          /\ Goto(e, "record")
    /\ UNCHANGED <<chunks, nextId, file, points, lock, broker, api, delivery,
                   lease, work, outcome>>

(* The dead-letter record, whose Redis errors are swallowed. *)
RecordDead(e) ==
    /\ pc[e] = "record"
    /\ Goto(e, "ack")
    /\ \/ dead' = dead \cup {job[e]} /\ UNCHANGED faults
       \/ Fault("redis") /\ UNCHANGED dead
    /\ UNCHANGED <<stores, lock, queue, dropped, api, delivery, lease, work,
                   outcome>>

(* self.retry publishes the message of the next attempt; when the broker
   refuses it Celery rejects the delivery without requeueing it.           *)
PublishRetry(e) ==
    /\ pc[e] = "retry"
    /\ Goto(e, "ack")
    /\ \/ Send(job[e], attempt[e] + 1) /\ UNCHANGED faults
       \/ Fault("broker") /\ UNCHANGED queue
    /\ UNCHANGED <<stores, lock, dead, dropped, api, delivery, lease, work,
                   outcome>>

(* The late acknowledgement removes the message from the broker. *)
Ack(e) ==
    /\ pc[e] = "ack"
    /\ BecomeIdle(e)
    /\ UNCHANGED <<stores, lock, broker, api, faults>>

-----------------------------------------------------------------------------
(* The heartbeat thread, the lock's TTL and the faults of a worker. *)

(* A refresh that succeeds changes nothing here.  It finds the key gone, or
   raises; either way the thread sets lock_lost and ends.                  *)
Heartbeat(e) ==
    /\ Beating(e)
    /\ pc[e] # "release"
    /\ \/ lock[job[e]] = NoExec /\ UNCHANGED faults
       \/ Fault("heartbeat")
    /\ lost' = [lost EXCEPT ![e] = TRUE]
    /\ UNCHANGED <<stores, lock, broker, api, pc, delivery, locked, work, outcome>>

(* Mutant: the heartbeat ends with the conversion. *)
RefreshedUntilConverted(d) ==
    \E e \in Exec : Beating(e) /\ job[e] = d /\ pc[e] \in {"load", "convert"}

(* Some execution refreshes the lock key of d. *)
Refreshed(d) == \E e \in Exec : Beating(e) /\ job[e] = d

(* Mutant: SET without EX. *)
LockExpiresNever(d) == FALSE /\ lock[d] # NoExec

(* The TTL passes once no execution of the document refreshes the key. *)
LockExpires(d) ==
    /\ lock[d] # NoExec
    /\ ~Refreshed(d)
    /\ lock' = [lock EXCEPT ![d] = NoExec]
    /\ UNCHANGED <<stores, broker, api, worker, faults>>

Stall(d) ==
    /\ lock[d] # NoExec
    /\ Refreshed(d)
    /\ Fault("stall")
    /\ lock' = [lock EXCEPT ![d] = NoExec]
    /\ UNCHANGED <<stores, broker, api, worker>>

(* Mutant: the message was acknowledged before the work was done. *)
WorkerLostAcked(e) ==
    /\ pc[e] # "idle"
    /\ Fault("crash")
    /\ BecomeIdle(e)
    /\ UNCHANGED <<stores, lock, broker, api>>

(* The process dies; its message goes back unless it already did. *)
WorkerLost(e) ==
    /\ pc[e] # "idle"
    /\ Fault("crash")
    /\ IF redelivered[e] THEN UNCHANGED queue ELSE Send(job[e], attempt[e])
    /\ BecomeIdle(e)
    /\ UNCHANGED <<stores, lock, dead, dropped, api>>

(* The visibility timeout passes while the process is still at work. *)
Redeliver(e) ==
    /\ pc[e] # "idle"
    /\ ~redelivered[e]
    /\ Fault("redeliver")
    /\ Send(job[e], attempt[e])
    /\ redelivered' = [redelivered EXCEPT ![e] = TRUE]
    /\ UNCHANGED <<stores, lock, dead, dropped, api, pc, job, attempt, lease,
                   work, outcome>>

ExecStep(e) ==
    \/ Acquire(e) \/ AcquireError(e) \/ LockBusy(e)
    \/ Load(e) \/ Convert(e) \/ ReplaceChunks(e) \/ ReadChunks(e)
    \/ UpsertBatch(e) \/ ListPoints(e) \/ DeleteStale(e)
    \/ CommitEmbeddings(e) \/ Finish(e) \/ Release(e)
    \/ AttemptFailed(e) \/ RecordDead(e) \/ PublishRetry(e) \/ Ack(e)

-----------------------------------------------------------------------------
Next ==
    \/ \E d \in Doc :
         \/ UploadStep(d) \/ UploadCrash(d)
         \/ DeleteBegin(d) \/ DeleteStep(d) \/ DeleteCrash(d)
         \/ LockExpires(d) \/ Stall(d)
    \/ \E e \in Exec :
         \/ \E d \in Doc, r \in 0..MaxRetries : Take(e, d, r)
         \/ ExecStep(e)
         \/ Heartbeat(e) \/ WorkerLost(e) \/ Redeliver(e)

Spec == Init /\ [][Next]_vars

(* Worker processes run the code they have begun and take waiting messages;
   a delete request that has begun ends; Redis expires keys; PostgreSQL
   grants a row lock to those who wait for it in turn, hence the strong
   fairness of the two steps that wait.  Nothing obliges a client to upload
   or delete, nor a fault to happen.                                       *)
Fairness ==
    /\ \A e \in Exec : WF_vars(ExecStep(e)) /\ SF_vars(ReplaceChunks(e))
                                             /\ SF_vars(CommitEmbeddings(e))
    /\ WF_vars(\E e \in Exec, d \in Doc, r \in 0..MaxRetries : Take(e, d, r))
    /\ \A d \in Doc : WF_vars(DeleteStep(d)) /\ WF_vars(LockExpires(d))

FairSpec == Spec /\ Fairness

-----------------------------------------------------------------------------
(* Properties. *)

WorkerTypeOK ==
    /\ pc \in [Exec -> ExecPc]
    /\ job \in [Exec -> Doc \cup {NoDoc}]
    /\ attempt \in [Exec -> 0..MaxRetries]
    /\ redelivered \in [Exec -> BOOLEAN]
    /\ locked \in [Exec -> BOOLEAN]
    /\ lost \in [Exec -> BOOLEAN]
    /\ ids \in [Exec -> SUBSET Nat]
    /\ todo \in [Exec -> SUBSET Nat]
    /\ outcome \in [Exec -> Outcome]
    /\ \A e \in Exec : job[e] = NoDoc <=> pc[e] = "idle"
    /\ \A e \in Exec : pc[e] = "retry" => attempt[e] < MaxRetries

(* Every variable has its type; a worker process has a document exactly
   while it is not idle, and a retry has a retry count to go to.           *)
TypeOK ==
    /\ status \in [Doc -> Status]
    /\ chunks \in [Doc -> SUBSET Nat]
    /\ nextId \in Nat
    /\ file \in [Doc -> BOOLEAN]
    /\ points \in [Doc -> SUBSET Nat]
    /\ lock \in [Doc -> Exec \cup {NoExec}]
    /\ queue \in [Doc -> [0..MaxRetries -> Nat]]
    /\ dead \subseteq Doc
    /\ dropped \subseteq Doc
    /\ upload \in [Doc -> UploadPc]
    /\ del \in [Doc -> DeletePc]
    /\ delRows \in [Doc -> SUBSET Nat]
    /\ purged \subseteq Doc
    /\ faults \in [FaultKind -> Nat]
    /\ WorkerTypeOK

(* No two executions of a document are between a successful acquisition of
   its lock and the release of it (document_index_service.py, 67-74 and
   193-200), as long as no heartbeat is cheated out of the key.            *)
MutualExclusion ==
    \A e, f \in Exec :
        locked[e] /\ locked[f] /\ job[e] = job[f] => e = f

(* A document shown as indexed has chunk rows, and Qdrant holds exactly
   their points (embeddings.py, 330-346), until a delete request removes
   the points and then fails to commit.                                    *)
IndexedIsSearchable ==
    \A d \in Doc :
        status[d] = "indexed" /\ d \notin purged =>
            chunks[d] # {} /\ points[d] = chunks[d]

(* The cleanup of stale points (embeddings.py, 336-346) never removes the
   point of a chunk row that exists: only a delete request does.           *)
CleanupSparesLiveChunks ==
    [][\A d \in Doc :
         (points[d] \ points'[d]) \cap chunks[d] # {} => d \in purged']_vars

(* Some message or execution of d will still do something. *)
Pending(d) ==
    \/ \E r \in 0..MaxRetries : queue[d][r] > 0
    \/ \E e \in Exec : job[e] = d

(* A document that was enqueued and is shown as uploaded or indexing has a
   message or an execution at work on it, or its task ended in a way that
   left a trace: the dead-letter record, or the busy lock that used up its
   retries (tasks/document_index.py, 51-108).                              *)
NoSilentStop ==
    \A d \in Doc :
        upload[d] = "done" /\ status[d] \in {"uploaded", "indexing"} =>
            Pending(d) \/ d \in dropped \/ d \in dead

(* Every enqueued document ends up indexed, failed or deleted, or its task
   leaves a trace.                                                         *)
Settled(d) ==
    \/ status[d] \in {"indexed", "failed", "deleted"}
    \/ d \in dropped \cup dead

EventuallySettled ==
    \A d \in Doc : upload[d] = "done" ~> Settled(d)

(* A lock left behind, by a crash or by a release that failed, does not
   stay: the TTL of lock:doc_index:<id> frees it (queue.py, 84-91).        *)
LockIsFreed ==
    \A d \in Doc : lock[d] # NoExec ~> lock[d] = NoExec
-----------------------------------------------------------------------------
(* The strengthening that is inductive when no lock is lost while it is
   refreshed: FaultBudget has neither stalls nor failing heartbeats.       *)

NoLockLoss == FaultBudget["stall"] = 0 /\ FaultBudget["heartbeat"] = 0

(* Between the update to indexing and the end of the attempt. *)
Working(e) == pc[e] \in {"convert", "replace", "reread", "upsert", "list",
                              "purge", "embed", "finish"}

(* Who works on a document or will release its lock owns the lock key. *)
Owns(e) ==
    /\ ~lost[e]
    /\ locked[e] => lock[job[e]] = e
    /\ Working(e) \/ pc[e] = "load" => locked[e]
    /\ pc[e] \in {"idle", "acquire", "busy"} => ~locked[e]

OwnsKey == \A e \in Exec : Owns(e)

(* A row that is gone took its chunks along and never comes back; an open
   delete transaction began with a row, and commits after the points.      *)
RowConsistent(d) ==
    /\ ~RowExists(d) => chunks[d] = {}
    /\ upload[d] \in {"none", "saved"} => status[d] = "absent"
    /\ del[d] \in {"vectors", "commit"} => status[d] # "absent"
    /\ del[d] = "commit" => d \in purged

RowsConsistent == \A d \in Doc : RowConsistent(d)

(* What an attempt has reached, as long as the document is still there and
   no delete request has removed its points.                               *)
Progress(e) ==
    LET d == job[e]
        intact == RowExists(d) /\ d \notin purged IN
    /\ Working(e) => status[d] \notin {"absent", "indexed"}
    /\ pc[e] \in {"reread", "upsert", "list", "purge", "embed", "finish"} =>
          (RowExists(d) => ids[e] = chunks[d] /\ chunks[d] # {})
    /\ pc[e] = "upsert" =>
          /\ todo[e] # {}
          /\ intact => ids[e] \subseteq points[d] \cup todo[e]
    /\ pc[e] \in {"list", "purge", "embed", "finish"} =>
          (intact => ids[e] \subseteq points[d])
    /\ pc[e] = "purge" =>
          /\ todo[e] \cap ids[e] = {}
          /\ RowExists(d) => points[d] \subseteq ids[e] \cup todo[e]
    /\ pc[e] \in {"embed", "finish"} => (RowExists(d) => points[d] \subseteq ids[e])

(* Nothing else is found under an indexed document, even while a delete
   request has taken away what should be.                                  *)
IndexedIsClean ==
    \A d \in Doc : status[d] = "indexed" => points[d] \subseteq chunks[d]

IInv ==
    /\ TypeOK
    /\ OwnsKey
    /\ RowsConsistent
    /\ IndexedIsSearchable
    /\ IndexedIsClean
    /\ \A e \in Exec : Progress(e)

(* The points that a search among the indexed documents can return. *)
Served == [d \in Doc |-> IF status[d] = "indexed" THEN points[d] ELSE {}]

Pub == INSTANCE DocPublication WITH
           Point <- Nat, shown <- status, served <- Served

(* The pipeline keeps the promise of DocPublication, as long as no lock is
   lost: the points searchable for a document that is shown as indexed appear
   in one step and do not change (document_index_service.py, 149-175).     *)
PublishesAtomically == Pub!Init /\ [][Pub!Next]_(Pub!vars)
=============================================================================
