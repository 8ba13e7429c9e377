--------------------------- MODULE DocumentProofs ---------------------------
(***************************************************************************)
(* Proofs about the indexing pipeline and the garbage collector beside it, *)
(* for any documents, worker processes, retry limit, batch bound and fault *)
(* budgets.  Of the pipeline: its types, that nothing stops silently, its  *)
(* safety, and that it implements DocPublication.  Then the same safety    *)
(* and refinement for the two together.                                    *)
(***************************************************************************)
EXTENDS DocGc, FiniteSetTheorems, SequenceTheorems, TLAPS

USE DocIndexAssumption

(* A fault adds one to its own counter and keeps the type of faults. *)
LEMMA FaultType ==
    ASSUME TypeOK, NEW k \in FaultKind, Fault(k)
    PROVE  faults' \in [FaultKind -> Nat]
BY DEF TypeOK, Fault

(* Adding a message to the queue keeps its type. *)
LEMMA SendType ==
    ASSUME TypeOK, NEW d \in Doc, NEW r \in 0..MaxRetries, Send(d, r)
    PROVE  queue' \in [Doc -> [0..MaxRetries -> Nat]]
<1>1. queue[d] \in [0..MaxRetries -> Nat] /\ queue[d][r] \in Nat
  BY DEF TypeOK
<1>2. [queue[d] EXCEPT ![r] = @ + 1] \in [0..MaxRetries -> Nat]
  BY <1>1
<1>3. queue' = [queue EXCEPT ![d] = [queue[d] EXCEPT ![r] = @ + 1]]
  BY DEF Send
<1>4. QED
  BY <1>2, <1>3 DEF TypeOK

(* So does taking one that is there. *)
LEMMA TakeType ==
    ASSUME TypeOK, NEW d \in Doc, NEW r \in 0..MaxRetries, queue[d][r] > 0
    PROVE  [queue EXCEPT ![d][r] = @ - 1] \in [Doc -> [0..MaxRetries -> Nat]]
<1>1. queue[d] \in [0..MaxRetries -> Nat] /\ queue[d][r] - 1 \in Nat
  BY DEF TypeOK
<1>2. [queue[d] EXCEPT ![r] = @ - 1] \in [0..MaxRetries -> Nat]
  BY <1>1
<1>3. QED
  BY <1>2 DEF TypeOK

LEMMA InitTypeOK == Init => TypeOK
BY DEF Init, TypeOK, WorkerTypeOK, Status, UploadPc, DeletePc, ExecPc, Outcome, FaultKind

(* An execution that is not idle works on a document. *)
LEMMA ExecDoc ==
    ASSUME TypeOK, NEW e \in Exec, pc[e] # "idle"
    PROVE  job[e] \in Doc
BY DEF TypeOK, WorkerTypeOK

(* A step of e from one busy place to another, other than to a retry, keeps
   the types of the worker processes.                                      *)
LEMMA MoveType ==
    ASSUME WorkerTypeOK, NEW e \in Exec, pc[e] # "idle",
           NEW l \in ExecPc \ {"idle", "retry"}, Goto(e, l), UNCHANGED delivery,
           locked' \in [Exec -> BOOLEAN], lost' \in [Exec -> BOOLEAN],
           ids' \in [Exec -> SUBSET Nat], todo' \in [Exec -> SUBSET Nat],
           outcome' \in [Exec -> Outcome]
    PROVE  WorkerTypeOK'
BY DEF WorkerTypeOK, Goto, delivery

(* So does the end of a delivery. *)
LEMMA IdleType ==
    ASSUME WorkerTypeOK, NEW e \in Exec, BecomeIdle(e)
    PROVE  WorkerTypeOK'
<1>1. /\ pc' \in [Exec -> ExecPc]
      /\ job' \in [Exec -> Doc \cup {NoDoc}]
      /\ attempt' \in [Exec -> 0..MaxRetries]
      /\ redelivered' \in [Exec -> BOOLEAN]
  BY DEF WorkerTypeOK, BecomeIdle, Goto, ExecPc
<1>2. /\ locked' \in [Exec -> BOOLEAN]
      /\ lost' \in [Exec -> BOOLEAN]
      /\ ids' \in [Exec -> SUBSET Nat]
      /\ todo' \in [Exec -> SUBSET Nat]
      /\ outcome' \in [Exec -> Outcome]
  BY DEF WorkerTypeOK, BecomeIdle, Outcome
<1>3. /\ \A f \in Exec : job'[f] = NoDoc <=> pc'[f] = "idle"
      /\ \A f \in Exec : pc'[f] = "retry" => attempt'[f] < MaxRetries
  BY DEF WorkerTypeOK, BecomeIdle, Goto
<1>4. QED
  BY <1>1, <1>2, <1>3 DEF WorkerTypeOK

(* A step of an attempt that raises keeps the worker's types. *)
LEMMA RaiseType ==
    ASSUME WorkerTypeOK, NEW e \in Exec, pc[e] # "idle", Raise(e),
           UNCHANGED <<delivery, lease, ids>>, todo' \in [Exec -> SUBSET Nat]
    PROVE  WorkerTypeOK'
<1>1. outcome' \in [Exec -> Outcome]
  BY DEF Raise, WorkerTypeOK, Outcome
<1>2. Goto(e, "release") /\ "release" \in ExecPc \ {"idle", "retry"}
  BY DEF Raise, ExecPc
<1>3. /\ locked' \in [Exec -> BOOLEAN] /\ lost' \in [Exec -> BOOLEAN]
      /\ ids' \in [Exec -> SUBSET Nat]
  BY DEF WorkerTypeOK, lease
<1>4. QED
  BY <1>1, <1>2, <1>3, MoveType

-----------------------------------------------------------------------------
(* Type correctness, actor by actor. *)

(* The steps of the upload request keep the types. *)
LEMMA UploadTypeOK ==
    ASSUME TypeOK, NEW d \in Doc, UploadStep(d) \/ UploadCrash(d)
    PROVE  TypeOK'
<1>1. CASE SaveFile(d)
  BY <1>1 DEF SaveFile, TypeOK, WorkerTypeOK, UploadPc, worker, broker, delivery, lease, work
<1>2. CASE InsertRow(d)
  BY <1>2 DEF InsertRow, TypeOK, WorkerTypeOK, UploadPc, Status, worker, broker, delivery, lease, work
<1>3. CASE Enqueue(d)
  <2>1. queue' \in [Doc -> [0..MaxRetries -> Nat]]
    <3>1. 0 \in 0..MaxRetries
      OBVIOUS
    <3>2. CASE Send(d, 0)
      BY <3>1, <3>2, SendType
    <3>3. CASE UNCHANGED queue
      BY <3>3 DEF TypeOK, WorkerTypeOK
    <3>4. QED
      BY <1>3, <3>2, <3>3 DEF Enqueue
  <2>2. QED
    BY <1>3, <2>1 DEF Enqueue, TypeOK, WorkerTypeOK, UploadPc, stores, worker, delivery, lease, work
<1>4. CASE MarkEnqueueFailed(d)
  BY <1>4 DEF MarkEnqueueFailed, TypeOK, WorkerTypeOK, UploadPc, Status, worker, broker, delivery, lease, work
<1>5. CASE UploadCrash(d)
  <2>1. faults' \in [FaultKind -> Nat]
    BY <1>5, FaultType DEF UploadCrash, FaultKind
  <2>2. QED
    BY <1>5, <2>1 DEF UploadCrash, TypeOK, WorkerTypeOK, UploadPc, stores, worker, broker, delivery, lease, work
<1>6. QED
  BY <1>1, <1>2, <1>3, <1>4, <1>5 DEF UploadStep

(* So do those of the delete request. *)
LEMMA DeleteTypeOK ==
    ASSUME TypeOK, NEW d \in Doc, DeleteBegin(d) \/ DeleteStep(d) \/ DeleteCrash(d)
    PROVE  TypeOK'
<1> USE DEF worker, broker, delivery, lease, work, EndDelete, DeletePc
<1>1. CASE DeleteBegin(d)
  BY <1>1 DEF DeleteBegin, TypeOK, WorkerTypeOK, stores
<1>2. CASE DeleteVectors(d)
  BY <1>2 DEF DeleteVectors, TypeOK, WorkerTypeOK
<1>3. CASE DeleteCommit(d)
  <2>1. status' \in [Doc -> Status] /\ chunks' \in [Doc -> SUBSET Nat]
    BY <1>3 DEF DeleteCommit, TypeOK, WorkerTypeOK, Status
  <2>2. del' \in [Doc -> DeletePc] /\ delRows' \in [Doc -> SUBSET Nat]
    <3>1. del \in [Doc -> DeletePc] /\ delRows \in [Doc -> SUBSET Nat]
      BY DEF TypeOK
    <3>2. /\ \E l \in DeletePc : del' = [del EXCEPT ![d] = l]
          /\ delRows' = [delRows EXCEPT ![d] = {}]
      BY <1>3 DEF DeleteCommit
    <3>3. QED
      BY <3>1, <3>2
  <2>3. QED
    BY <1>3, <2>1, <2>2 DEF DeleteCommit, TypeOK, WorkerTypeOK
<1>4. CASE DeleteFiles(d)
  BY <1>4 DEF DeleteFiles, TypeOK, WorkerTypeOK
<1>5. CASE DeleteCrash(d)
  <2>1. faults' \in [FaultKind -> Nat]
    BY <1>5, FaultType DEF DeleteCrash, FaultKind
  <2>2. QED
    BY <1>5, <2>1 DEF DeleteCrash, TypeOK, WorkerTypeOK, stores
<1>6. QED
  BY <1>1, <1>2, <1>3, <1>4, <1>5 DEF DeleteStep

(* So do those of the Celery task before the attempt. *)
LEMMA DeliveryTypeOK ==
    ASSUME TypeOK, NEW e \in Exec,
           \/ \E d \in Doc, r \in 0..MaxRetries : Take(e, d, r)
           \/ Acquire(e) \/ AcquireError(e) \/ LockBusy(e)
    PROVE  TypeOK'
<1> USE DEF stores, api, Goto, Raise
<1>1. ASSUME NEW d \in Doc, NEW r \in 0..MaxRetries, Take(e, d, r)
      PROVE  TypeOK'
  <2>1. queue' \in [Doc -> [0..MaxRetries -> Nat]]
    BY <1>1, TakeType DEF Take
  <2>2. WorkerTypeOK'
    BY <1>1 DEF Take, TypeOK, WorkerTypeOK, ExecPc, lease, work
  <2>3. QED
    BY <1>1, <2>1, <2>2 DEF Take, TypeOK
<1>2. CASE Acquire(e)
  <2>1. lock' \in [Doc -> Exec \cup {NoExec}]
    BY <1>2 DEF Acquire, TypeOK
  <2>2. WorkerTypeOK'
    <3>1. WorkerTypeOK
      BY DEF TypeOK
    <3>2. /\ pc[e] # "idle" /\ UNCHANGED <<delivery, lost, ids, todo, outcome>>
          /\ \E l \in ExecPc \ {"idle", "retry"} : Goto(e, l)
          /\ locked' = [locked EXCEPT ![e] = TRUE] \/ UNCHANGED locked
      BY <1>2 DEF Acquire, ExecPc, work
    <3>3. locked' \in [Exec -> BOOLEAN]
      BY <3>1, <3>2 DEF WorkerTypeOK
    <3>4. /\ lost' \in [Exec -> BOOLEAN] /\ ids' \in [Exec -> SUBSET Nat]
          /\ todo' \in [Exec -> SUBSET Nat] /\ outcome' \in [Exec -> Outcome]
      BY <3>1, <3>2 DEF WorkerTypeOK
    <3>. HIDE DEF Goto
    <3>5. QED
      BY <3>1, <3>2, <3>3, <3>4, MoveType
  <2>3. QED
    BY <1>2, <2>1, <2>2 DEF Acquire, TypeOK, broker
<1>3. CASE AcquireError(e)
  <2>1. faults' \in [FaultKind -> Nat]
    BY <1>3, FaultType DEF AcquireError, FaultKind
  <2>2. lock' \in [Doc -> Exec \cup {NoExec}]
    BY <1>3 DEF AcquireError, TypeOK
  <2>3. WorkerTypeOK'
    BY <1>3 DEF AcquireError, TypeOK, WorkerTypeOK, ExecPc, Outcome, delivery,
                lease, work
  <2>4. QED
    BY <1>3, <2>1, <2>2, <2>3 DEF AcquireError, TypeOK, broker
<1>4. CASE LockBusy(e)
  <2>0. job[e] \in Doc
    BY <1>4, ExecDoc DEF LockBusy
  <2>1. dropped' \subseteq Doc
    BY <1>4, <2>0 DEF LockBusy, TypeOK
  <2>2. WorkerTypeOK'
    BY <1>4 DEF LockBusy, TypeOK, WorkerTypeOK, ExecPc, delivery, lease, work
  <2>3. QED
    BY <1>4, <2>1, <2>2 DEF LockBusy, TypeOK
<1>5. QED
  BY <1>1, <1>2, <1>3, <1>4

(* So do those of the attempt. *)
LEMMA AttemptTypeOK ==
    ASSUME TypeOK, NEW e \in Exec,
           \/ Load(e) \/ Convert(e) \/ ReplaceChunks(e) \/ ReadChunks(e)
           \/ UpsertBatch(e) \/ ListPoints(e) \/ DeleteStale(e)
           \/ CommitEmbeddings(e) \/ Finish(e)
    PROVE  TypeOK'
<1> USE DEF broker, api
<1>0. pc[e] # "idle" /\ job[e] \in Doc /\ WorkerTypeOK
  <2>1. pc[e] # "idle"
    BY DEF Load, Convert, ReplaceChunks, ReadChunks, UpsertBatch, ListPoints,
           DeleteStale, CommitEmbeddings, Finish
  <2>2. QED
    BY <2>1, ExecDoc DEF TypeOK
<1>a. /\ ids[e] \subseteq Nat /\ todo[e] \subseteq Nat
      /\ chunks[job[e]] \subseteq Nat /\ points[job[e]] \subseteq Nat
  BY <1>0 DEF TypeOK, WorkerTypeOK
<1>b. /\ locked \in [Exec -> BOOLEAN] /\ lost \in [Exec -> BOOLEAN]
      /\ ids \in [Exec -> SUBSET Nat] /\ todo \in [Exec -> SUBSET Nat]
      /\ outcome \in [Exec -> Outcome]
  BY <1>0 DEF WorkerTypeOK
<1>c. {"convert", "replace", "reread", "upsert", "list", "purge", "embed",
       "finish", "release"} \subseteq ExecPc \ {"idle", "retry"}
  BY DEF ExecPc
<1>1. CASE Load(e)
  <2>1. status' \in [Doc -> Status]
    BY <1>1 DEF Load, TypeOK, Status
  <2>2. outcome' \in [Exec -> Outcome]
    BY <1>1, <1>b DEF Load, Outcome
  <2>3. WorkerTypeOK'
    BY <1>0, <1>b, <1>c, <1>1, <2>2, MoveType DEF Load, lease, work
  <2>4. QED
    BY <1>1, <2>1, <2>3 DEF Load, TypeOK
<1>2. CASE Convert(e)
  <2>1. CASE Raise(e)
    <3>1. WorkerTypeOK'
      BY <1>0, <1>b, <1>2, <2>1, RaiseType DEF Convert, work
    <3>2. QED
      BY <1>2, <3>1 DEF Convert, TypeOK, stores
  <2>2. CASE Goto(e, "replace") /\ UNCHANGED outcome
    <3>1. WorkerTypeOK'
      BY <1>0, <1>b, <1>c, <1>2, <2>2, MoveType DEF Convert, lease, work
    <3>2. QED
      BY <1>2, <3>1 DEF Convert, TypeOK, stores
  <2>3. QED
    BY <1>2, <2>1, <2>2 DEF Convert
<1>3. CASE ReplaceChunks(e)
  <2>1. CASE /\ \E n \in 1..MaxBatches :
                  /\ ids' = [ids EXCEPT ![e] = nextId .. nextId + n - 1]
                  /\ nextId' = nextId + n
             /\ chunks' = [chunks EXCEPT ![job[e]] = ids'[e]]
             /\ Goto(e, "reread")
             /\ UNCHANGED outcome
    <3>1. nextId' \in Nat /\ ids' \in [Exec -> SUBSET Nat]
      BY <1>b, <2>1 DEF TypeOK
    <3>2. chunks' \in [Doc -> SUBSET Nat]
      BY <2>1, <3>1 DEF TypeOK
    <3>3. WorkerTypeOK'
      BY <1>0, <1>b, <1>c, <1>3, <2>1, <3>1, MoveType DEF ReplaceChunks, lease
    <3>4. QED
      BY <1>3, <3>1, <3>2, <3>3 DEF ReplaceChunks, TypeOK
  <2>2. CASE Raise(e) /\ UNCHANGED <<chunks, nextId, ids>>
    <3>1. WorkerTypeOK'
      BY <1>0, <1>b, <1>3, <2>2, RaiseType DEF ReplaceChunks
    <3>2. QED
      BY <1>3, <2>2, <3>1 DEF ReplaceChunks, TypeOK
  <2>3. QED
    BY <1>3, <2>1, <2>2 DEF ReplaceChunks
<1>4. CASE ReadChunks(e)
  <2>1. CASE Raise(e) /\ UNCHANGED work
    <3>1. WorkerTypeOK'
      BY <1>0, <1>b, <1>4, <2>1, RaiseType DEF ReadChunks, work
    <3>2. QED
      BY <1>4, <3>1 DEF ReadChunks, TypeOK, stores
  <2>2. CASE /\ ids' = [ids EXCEPT ![e] = chunks[job[e]]]
             /\ todo' = [todo EXCEPT ![e] = chunks[job[e]]]
             /\ Goto(e, IF chunks[job[e]] = {} THEN "finish" ELSE "upsert")
             /\ UNCHANGED outcome
    <3>1. ids' \in [Exec -> SUBSET Nat] /\ todo' \in [Exec -> SUBSET Nat]
      BY <1>a, <1>b, <2>2
    <3>2. WorkerTypeOK'
      BY <1>0, <1>b, <1>c, <1>4, <2>2, <3>1, MoveType DEF ReadChunks, lease
    <3>3. QED
      BY <1>4, <3>2 DEF ReadChunks, TypeOK, stores
  <2>3. QED
    BY <1>4, <2>1, <2>2 DEF ReadChunks
<1>5. CASE UpsertBatch(e)
  <2>1. ASSUME NEW i \in todo[e], points' = [points EXCEPT ![job[e]] = @ \cup {i}]
        PROVE  points' \in [Doc -> SUBSET Nat]
    BY <1>0, <1>a, <2>1 DEF TypeOK
  <2>2. points' \in [Doc -> SUBSET Nat]
    BY <1>5, <2>1 DEF UpsertBatch, TypeOK
  <2>3. CASE Raise(e) /\ UNCHANGED todo
    <3>1. WorkerTypeOK'
      BY <1>0, <1>b, <1>5, <2>3, RaiseType DEF UpsertBatch
    <3>2. QED
      BY <1>5, <2>2, <3>1 DEF UpsertBatch, TypeOK
  <2>4. ASSUME NEW i \in todo[e], todo' = [todo EXCEPT ![e] = @ \ {i}],
               Goto(e, IF todo[e] = {i} THEN "list" ELSE "upsert"),
               UNCHANGED outcome
        PROVE  TypeOK'
    <3>1. todo' \in [Exec -> SUBSET Nat]
      BY <1>a, <1>b, <2>4
    <3>2. WorkerTypeOK'
      BY <1>0, <1>b, <1>c, <1>5, <2>4, <3>1, MoveType DEF UpsertBatch, lease
    <3>3. QED
      BY <1>5, <2>2, <3>2 DEF UpsertBatch, TypeOK
  <2>5. QED
    BY <1>5, <2>3, <2>4 DEF UpsertBatch
<1>6. CASE ListPoints(e)
  <2>1. CASE Raise(e) /\ UNCHANGED todo
    <3>1. WorkerTypeOK'
      BY <1>0, <1>b, <1>6, <2>1, RaiseType DEF ListPoints
    <3>2. QED
      BY <1>6, <3>1 DEF ListPoints, TypeOK, stores
  <2>2. CASE /\ todo' = [todo EXCEPT ![e] = points[job[e]] \ ids[e]]
             /\ Goto(e, IF points[job[e]] \subseteq ids[e] THEN "embed" ELSE "purge")
             /\ UNCHANGED outcome
    <3>1. todo' \in [Exec -> SUBSET Nat]
      BY <1>a, <1>b, <2>2
    <3>2. WorkerTypeOK'
      BY <1>0, <1>b, <1>c, <1>6, <2>2, <3>1, MoveType DEF ListPoints, lease
    <3>3. QED
      BY <1>6, <3>2 DEF ListPoints, TypeOK, stores
  <2>3. QED
    BY <1>6, <2>1, <2>2 DEF ListPoints
<1>7. CASE DeleteStale(e)
  <2>1. points' \in [Doc -> SUBSET Nat]
    <3>1. CASE UNCHANGED points
      BY <3>1 DEF TypeOK
    <3>2. CASE points' = [points EXCEPT ![job[e]] = @ \ todo[e]]
      <4>1. points[job[e]] \ todo[e] \in SUBSET Nat
        BY <1>a
      <4>2. QED
        BY <3>2, <4>1 DEF TypeOK
    <3>3. QED
      BY <1>7, <3>1, <3>2 DEF DeleteStale
  <2>2. CASE Raise(e) /\ UNCHANGED todo
    <3>1. WorkerTypeOK'
      BY <1>0, <1>b, <1>7, <2>2, RaiseType DEF DeleteStale
    <3>2. QED
      BY <1>7, <2>1, <3>1 DEF DeleteStale, TypeOK
  <2>3. CASE /\ todo' = [todo EXCEPT ![e] = {}]
             /\ Goto(e, "embed")
             /\ UNCHANGED outcome
    <3>1. todo' \in [Exec -> SUBSET Nat]
      BY <1>b, <2>3
    <3>2. WorkerTypeOK'
      BY <1>0, <1>b, <1>c, <1>7, <2>3, <3>1, MoveType DEF DeleteStale, lease
    <3>3. QED
      BY <1>7, <2>1, <3>2 DEF DeleteStale, TypeOK
  <2>4. QED
    BY <1>7, <2>2, <2>3 DEF DeleteStale
<1>8. CASE CommitEmbeddings(e)
  <2>1. CASE Raise(e)
    <3>1. WorkerTypeOK'
      BY <1>0, <1>b, <1>8, <2>1, RaiseType DEF CommitEmbeddings, work
    <3>2. QED
      BY <1>8, <3>1 DEF CommitEmbeddings, TypeOK, stores
  <2>2. CASE Goto(e, "finish") /\ UNCHANGED outcome
    <3>1. WorkerTypeOK'
      BY <1>0, <1>b, <1>c, <1>8, <2>2, MoveType DEF CommitEmbeddings, lease, work
    <3>2. QED
      BY <1>8, <3>1 DEF CommitEmbeddings, TypeOK, stores
  <2>3. QED
    BY <1>8, <2>1, <2>2 DEF CommitEmbeddings
<1>9. CASE Finish(e)
  <2>1. status' \in [Doc -> Status]
    BY <1>9 DEF Finish, TypeOK, Status
  <2>2. outcome' \in [Exec -> Outcome]
    BY <1>9, <1>b DEF Finish, Raise, Outcome
  <2>3. WorkerTypeOK'
    BY <1>0, <1>b, <1>c, <1>9, <2>2, MoveType DEF Finish, Raise, lease, work
  <2>4. QED
    BY <1>9, <2>1, <2>3 DEF Finish, TypeOK
<1>10. QED
  BY <1>1, <1>2, <1>3, <1>4, <1>5, <1>6, <1>7, <1>8, <1>9

(* So do those of the task after the attempt. *)
LEMMA OutcomeTypeOK ==
    ASSUME TypeOK, NEW e \in Exec,
           \/ Release(e) \/ AttemptFailed(e) \/ RecordDead(e)
           \/ PublishRetry(e) \/ Ack(e)
    PROVE  TypeOK'
<1> USE DEF api, Goto, ExecPc
<1>1. CASE Release(e)
  <2>1. faults' \in [FaultKind -> Nat]
    BY <1>1, FaultType DEF Release, FaultKind, TypeOK, WorkerTypeOK
  <2>2. lock' \in [Doc -> Exec \cup {NoExec}]
    <3>1. lock \in [Doc -> Exec \cup {NoExec}]
      BY DEF TypeOK
    <3>2. lock' = [lock EXCEPT ![job[e]] = NoExec] \/ lock' = lock
      BY <1>1 DEF Release
    <3>3. QED
      BY <3>1, <3>2
  <2>3. QED
    BY <1>1, <2>1, <2>2 DEF Release, TypeOK, WorkerTypeOK, stores, broker, delivery
<1>2. CASE AttemptFailed(e)
  <2>1. faults' \in [FaultKind -> Nat]
    BY <1>2, FaultType DEF AttemptFailed, MarkFailed, FaultKind, TypeOK, WorkerTypeOK
  <2>2. status' \in [Doc -> Status]
    <3>1. status \in [Doc -> Status]
      BY DEF TypeOK
    <3>2. status' = status \/ \E s \in Status : status' = [status EXCEPT ![job[e]] = s]
      BY <1>2 DEF AttemptFailed, MarkFailed, Status
    <3>3. QED
      BY <3>1, <3>2
  <2>3. QED
    BY <1>2, <2>1, <2>2 DEF AttemptFailed, TypeOK, WorkerTypeOK, broker, delivery, lease, work
<1>3. CASE RecordDead(e)
  <2>1. faults' \in [FaultKind -> Nat]
    BY <1>3, FaultType DEF RecordDead, FaultKind, TypeOK, WorkerTypeOK
  <2>2. QED
    BY <1>3, <2>1 DEF RecordDead, TypeOK, WorkerTypeOK, stores, delivery, lease, work
<1>4. CASE PublishRetry(e)
  <2>1. faults' \in [FaultKind -> Nat]
    BY <1>4, FaultType DEF PublishRetry, FaultKind, TypeOK, WorkerTypeOK
  <2>2. queue' \in [Doc -> [0..MaxRetries -> Nat]]
    <3>1. job[e] \in Doc
      BY <1>4, ExecDoc DEF PublishRetry
    <3>2. attempt[e] + 1 \in 0..MaxRetries
      BY <1>4 DEF PublishRetry, TypeOK, WorkerTypeOK
    <3>3. CASE UNCHANGED queue
      BY <3>3 DEF TypeOK
    <3>4. CASE Send(job[e], attempt[e] + 1)
      BY <3>1, <3>2, <3>4, SendType
    <3>5. QED
      BY <1>4, <3>3, <3>4 DEF PublishRetry
  <2>3. QED
    BY <1>4, <2>1, <2>2 DEF PublishRetry, TypeOK, WorkerTypeOK, stores, delivery, lease, work
<1>5. CASE Ack(e)
  <2>1. WorkerTypeOK'
    BY <1>5, IdleType DEF Ack, TypeOK
  <2>2. QED
    BY <1>5, <2>1 DEF Ack, TypeOK, stores, broker
<1>6. QED
  BY <1>1, <1>2, <1>3, <1>4, <1>5

(* So do the heartbeat, the TTL and the faults. *)
LEMMA FaultTypeOK ==
    ASSUME TypeOK,
           \/ \E d \in Doc : LockExpires(d) \/ Stall(d)
           \/ \E e \in Exec : Heartbeat(e) \/ WorkerLost(e) \/ Redeliver(e)
    PROVE  TypeOK'
<1> USE DEF stores, api
<1>1. ASSUME NEW d \in Doc, LockExpires(d)
      PROVE  TypeOK'
  BY <1>1 DEF LockExpires, TypeOK, WorkerTypeOK, broker, worker, delivery, lease, work
<1>2. ASSUME NEW d \in Doc, Stall(d)
      PROVE  TypeOK'
  <2>1. faults' \in [FaultKind -> Nat]
    BY <1>2, FaultType DEF Stall, FaultKind
  <2>2. QED
    BY <1>2, <2>1 DEF Stall, TypeOK, WorkerTypeOK, broker, worker, delivery, lease, work
<1>3. ASSUME NEW e \in Exec, Heartbeat(e)
      PROVE  TypeOK'
  <2>1. faults' \in [FaultKind -> Nat]
    BY <1>3, FaultType DEF Heartbeat, FaultKind, TypeOK, WorkerTypeOK
  <2>2. QED
    BY <1>3, <2>1 DEF Heartbeat, TypeOK, WorkerTypeOK, broker, delivery, work
<1>4. ASSUME NEW e \in Exec, WorkerLost(e)
      PROVE  TypeOK'
  <2>1. faults' \in [FaultKind -> Nat]
    BY <1>4, FaultType DEF WorkerLost, FaultKind
  <2>2. queue' \in [Doc -> [0..MaxRetries -> Nat]]
    <3>1. job[e] \in Doc /\ attempt[e] \in 0..MaxRetries
      BY <1>4, ExecDoc DEF WorkerLost, TypeOK, WorkerTypeOK
    <3>2. QED
      BY <1>4, <3>1, SendType DEF WorkerLost, TypeOK, WorkerTypeOK
  <2>3. WorkerTypeOK'
    BY <1>4, IdleType DEF WorkerLost, TypeOK
  <2>4. QED
    BY <1>4, <2>1, <2>2, <2>3 DEF WorkerLost, TypeOK
<1>5. ASSUME NEW e \in Exec, Redeliver(e)
      PROVE  TypeOK'
  <2>1. faults' \in [FaultKind -> Nat]
    BY <1>5, FaultType DEF Redeliver, FaultKind
  <2>2. queue' \in [Doc -> [0..MaxRetries -> Nat]]
    <3>1. job[e] \in Doc /\ attempt[e] \in 0..MaxRetries
      BY <1>5, ExecDoc DEF Redeliver, TypeOK, WorkerTypeOK
    <3>2. QED
      BY <1>5, <3>1, SendType DEF Redeliver
  <2>3. QED
    BY <1>5, <2>1, <2>2 DEF Redeliver, TypeOK, WorkerTypeOK, lease, work
<1>6. QED
  BY <1>1, <1>2, <1>3, <1>4, <1>5

LEMMA NextTypeOK ==
    ASSUME TypeOK, [Next]_vars
    PROVE  TypeOK'
<1>1. CASE UNCHANGED vars
  BY <1>1 DEF TypeOK, WorkerTypeOK, vars, stores, broker, api, worker, delivery, lease, work
<1>2. CASE Next
  BY <1>2, UploadTypeOK, DeleteTypeOK, DeliveryTypeOK, AttemptTypeOK,
     OutcomeTypeOK, FaultTypeOK DEF Next, ExecStep
<1>3. QED
  BY <1>1, <1>2

(* Every variable keeps its type, the retry count of a delivery its bound,
   and a worker process has a document exactly while it is not idle.       *)
THEOREM TypeCorrect == Spec => []TypeOK
BY InitTypeOK, NextTypeOK, PTL DEF Spec

-----------------------------------------------------------------------------
(* No document is forgotten: whoever last set its status to uploaded or
   indexing, or a message, will still do something about it.               *)

(* The faults that lose a task: a status update or a retry that is refused,
   and the death of an execution whose message was already handed out.     *)
NoLostTask ==
    /\ FaultBudget["db"] = 0 /\ FaultBudget["broker"] = 0
    /\ FaultBudget["crash"] = 0 \/ FaultBudget["redeliver"] = 0

(* The execution will set a status, send a message or leave a trace. *)
Live(e) ==
    /\ pc[e] \notin {"idle", "record", "ack"}
    /\ pc[e] = "release" => outcome[e] = "error"

Traced(d) == d \in dropped \/ d \in dead

Waiting(d) == upload[d] = "done" /\ status[d] \in {"uploaded", "indexing"}

Underway(d) ==
    Waiting(d) =>
        \/ \E r \in 0..MaxRetries : queue[d][r] > 0
        \/ \E e \in Exec : job[e] = d /\ Live(e)
        \/ Traced(d)

TraceInv ==
    /\ TypeOK
    /\ \A d \in Doc : Underway(d)
    /\ FaultBudget["redeliver"] = 0 => \A e \in Exec : ~redelivered[e]

(* A fault whose budget is zero does not happen. *)
LEMMA NoFault ==
    ASSUME TypeOK, NEW k \in FaultKind, FaultBudget[k] = 0
    PROVE  ~Fault(k)
BY DEF TypeOK, Fault

(* No message is taken away, no trace removed. *)
Lasting(d) ==
    /\ \A r \in 0..MaxRetries : queue'[d][r] >= queue[d][r]
    /\ dropped \subseteq dropped' /\ dead \subseteq dead'

(* The execution is not touched. *)
Apart(f) == pc'[f] = pc[f] /\ job'[f] = job[f] /\ outcome'[f] = outcome[f]

(* A document whose messages, traces and executions stay. *)
LEMMA UnderwayFrame ==
    ASSUME TypeOK, TypeOK', NEW d \in Doc, Underway(d), Lasting(d),
           Waiting(d)' => Waiting(d),
           \A f \in Exec : job[f] = d /\ Live(f) => Apart(f)
    PROVE  Underway(d)'
<1> SUFFICES ASSUME Waiting(d)' PROVE \/ \E r \in 0..MaxRetries : queue'[d][r] > 0
                                      \/ \E e \in Exec : job'[e] = d /\ Live(e)'
                                      \/ Traced(d)'
  BY DEF Underway
<1>1. CASE \E r \in 0..MaxRetries : queue[d][r] > 0
  <2>1. PICK r \in 0..MaxRetries : queue[d][r] > 0
    BY <1>1
  <2>2. queue[d] \in [0..MaxRetries -> Nat] /\ queue'[d] \in [0..MaxRetries -> Nat]
    BY DEF TypeOK
  <2>3. queue[d][r] \in Nat /\ queue'[d][r] \in Nat /\ queue'[d][r] >= queue[d][r]
    BY <2>2 DEF Lasting
  <2>4. QED
    BY <2>1, <2>3
<1>2. CASE \E e \in Exec : job[e] = d /\ Live(e)
  BY <1>2 DEF Apart, Live
<1>3. CASE Traced(d)
  BY <1>3 DEF Traced, Lasting
<1>4. QED
  BY <1>1, <1>2, <1>3 DEF Underway

(* A step of e that leaves every other document's status alone, and after
   which e is still there for its own, or has settled it.                  *)
LEMMA UnderwayStep ==
    ASSUME TypeOK, TypeOK', \A d \in Doc : Underway(d), NEW e \in Exec,
           UNCHANGED upload, \A d \in Doc : Lasting(d),
           \A f \in Exec \ {e} : Apart(f),
           \A d \in Doc \ {job[e]} : status'[d] = status[d],
           \A d \in Doc : d = job[e] => Underway(d)'
    PROVE  \A d \in Doc : Underway(d)'
<1>1. ASSUME NEW d \in Doc, d # job[e] PROVE Underway(d)'
  <2>1. Waiting(d)' => Waiting(d)
    BY <1>1 DEF Waiting
  <2>2. \A f \in Exec : job[f] = d /\ Live(f) => Apart(f)
    BY <1>1
  <2>3. QED
    BY <2>1, <2>2, UnderwayFrame
<1>2. QED
  BY <1>1

LEMMA UploadUnderway ==
    ASSUME TypeOK, TypeOK', \A d \in Doc : Underway(d), NEW c \in Doc,
           UploadStep(c) \/ UploadCrash(c)
    PROVE  \A d \in Doc : Underway(d)'
<1>1. /\ \A f \in Exec : Apart(f)
      /\ UNCHANGED <<dropped, dead>>
  BY DEF UploadStep, UploadCrash, SaveFile, InsertRow, Enqueue, MarkEnqueueFailed,
     Apart, worker, delivery, broker
<1>2. ASSUME NEW d \in Doc, d # c PROVE Underway(d)'
  <2>1. upload'[d] = upload[d] /\ status'[d] = status[d] /\ queue'[d] = queue[d]
    <3>1. CASE SaveFile(c)
      BY <1>2, <3>1 DEF TypeOK, SaveFile, broker
    <3>2. CASE InsertRow(c)
      BY <1>2, <3>2 DEF TypeOK, InsertRow, broker
    <3>3. CASE Enqueue(c)
      BY <1>2, <3>3 DEF TypeOK, Enqueue, Send, stores
    <3>4. CASE MarkEnqueueFailed(c)
      BY <1>2, <3>4 DEF TypeOK, MarkEnqueueFailed, broker
    <3>5. CASE UploadCrash(c)
      BY <1>2, <3>5 DEF TypeOK, UploadCrash, stores, broker
    <3>6. QED
      BY <3>1, <3>2, <3>3, <3>4, <3>5 DEF UploadStep
  <2>2. Lasting(d)
    BY <1>1, <2>1 DEF Lasting, TypeOK
  <2>3. QED
    BY <1>1, <2>1, <2>2, UnderwayFrame DEF Waiting
<1>3. Underway(c)'
  <2>1. CASE Enqueue(c) /\ Send(c, 0)
    <3>1. 0 \in 0..MaxRetries /\ queue[c][0] \in Nat /\ queue'[c][0] = queue[c][0] + 1
      BY <2>1 DEF Send, TypeOK
    <3>2. QED
      BY <3>1 DEF Underway
  <2>2. CASE upload'[c] # "done"
    BY <2>2 DEF Underway, Waiting
  <2>3. CASE MarkEnqueueFailed(c)
    BY <2>3 DEF MarkEnqueueFailed, Underway, Waiting, RowExists, TypeOK
  <2>4. QED
    BY <2>1, <2>2, <2>3 DEF TypeOK, UploadStep, UploadCrash, SaveFile, InsertRow, Enqueue
<1>4. QED
  BY <1>2, <1>3

LEMMA DeleteUnderway ==
    ASSUME TypeOK, TypeOK', \A d \in Doc : Underway(d), NEW c \in Doc,
           \/ DeleteBegin(c) \/ DeleteStep(c) \/ DeleteCrash(c)
           \/ LockExpires(c) \/ Stall(c)
    PROVE  \A d \in Doc : Underway(d)'
<1>1. /\ \A f \in Exec : Apart(f)
      /\ UNCHANGED <<upload, queue, dropped, dead>>
  BY DEF DeleteBegin, DeleteStep, DeleteVectors, DeleteCommit, DeleteFiles,
     DeleteCrash, LockExpires, Stall, Apart, worker, delivery, broker, api
<1>2. ASSUME NEW d \in Doc PROVE Underway(d)'
  <2>1. status'[d] = status[d] \/ status'[d] = "deleted"
    BY DEF DeleteBegin, DeleteStep, DeleteVectors, DeleteCommit, DeleteFiles,
       DeleteCrash, LockExpires, Stall, TypeOK, stores
  <2>2. Lasting(d)
    BY <1>1 DEF Lasting, TypeOK
  <2>3. QED
    BY <1>1, <2>1, <2>2, UnderwayFrame DEF Waiting
<1>3. QED
  BY <1>2

(* Who still works on a document keeps it under way. *)
LEMMA LiveUnderway ==
    ASSUME NEW d \in Doc, NEW e \in Exec, job'[e] = d, Live(e)'
    PROVE  Underway(d)'
BY DEF Underway

(* A message more takes nothing away, and is one that waits. *)
LEMMA SendLasting ==
    ASSUME TypeOK, NEW d \in Doc, NEW r \in 0..MaxRetries, Send(d, r),
           UNCHANGED <<dropped, dead>>
    PROVE  (\A c \in Doc : Lasting(c)) /\ queue'[d][r] > 0
<1>1. queue[d] \in [0..MaxRetries -> Nat]
  BY DEF TypeOK
<1>2. queue'[d] = [queue[d] EXCEPT ![r] = @ + 1]
  BY DEF Send, TypeOK
<1>3. ASSUME NEW c \in Doc, c # d PROVE queue'[c] = queue[c] /\ queue[c] \in [0..MaxRetries -> Nat]
  BY <1>3 DEF Send, TypeOK
<1>4. ASSUME NEW c \in Doc, NEW q \in 0..MaxRetries PROVE queue'[c][q] >= queue[c][q]
  <2>1. CASE c = d
    <3>1. queue[d][q] \in Nat
      BY <1>1
    <3>2. CASE q = r
      <4>1. queue'[d][q] = queue[d][q] + 1
        BY <1>1, <1>2, <3>2
      <4>2. QED
        BY <2>1, <3>1, <4>1
    <3>3. CASE q # r
      <4>1. queue'[d][q] = queue[d][q]
        BY <1>1, <1>2, <3>3
      <4>2. QED
        BY <2>1, <3>1, <4>1
    <3>4. QED
      BY <3>2, <3>3
  <2>2. CASE c # d
    <3>1. queue'[c] = queue[c] /\ queue[c][q] \in Nat
      BY <1>3, <2>2
    <3>2. QED
      BY <3>1
  <2>3. QED
    BY <2>1, <2>2
<1>5. queue'[d][r] > 0
  <2>1. queue'[d][r] = queue[d][r] + 1 /\ queue[d][r] \in Nat
    BY <1>1, <1>2
  <2>2. QED
    BY <2>1
<1>6. QED
  BY <1>4, <1>5 DEF Lasting

(* Within an attempt whoever goes on, or fails, stays live; the end of one
   has set the status to indexed, or found no row.                         *)
LEMMA AttemptUnderway ==
    ASSUME TypeOK, TypeOK', \A d \in Doc : Underway(d), NEW e \in Exec,
           \/ Acquire(e) \/ AcquireError(e) \/ Load(e) \/ Convert(e)
           \/ ReplaceChunks(e) \/ ReadChunks(e) \/ UpsertBatch(e) \/ ListPoints(e)
           \/ DeleteStale(e) \/ CommitEmbeddings(e) \/ Finish(e)
    PROVE  \A d \in Doc : Underway(d)'
<1> USE DEF Acquire, AcquireError, Load, Convert, ReplaceChunks, ReadChunks, UpsertBatch,
        ListPoints, DeleteStale, CommitEmbeddings, Finish
<1>0. WorkerTypeOK /\ job[e] \in Doc
  BY ExecDoc DEF TypeOK
<1>1. UNCHANGED <<upload, queue, dropped, dead, job>>
  BY DEF api, broker, delivery
<1>2. \A d \in Doc : Lasting(d)
  BY <1>1 DEF Lasting, TypeOK
<1>3. \A f \in Exec \ {e} : Apart(f)
  BY <1>0 DEF Goto, Raise, Apart, WorkerTypeOK, delivery
<1>4. \A d \in Doc \ {job[e]} : status'[d] = status[d]
  BY <1>0 DEF TypeOK, stores
<1>5. ASSUME NEW d \in Doc, d = job[e] PROVE Underway(d)'
  <2>1. CASE Raise(e)
    BY <1>0, <1>1, <1>5, <2>1, LiveUnderway DEF Raise, Goto, Live, WorkerTypeOK
  <2>2. CASE \E l \in ExecPc \ {"idle", "record", "ack", "release"} : Goto(e, l)
    BY <1>0, <1>1, <1>5, <2>2, LiveUnderway DEF Goto, Live, WorkerTypeOK
  <2>3. CASE Load(e) /\ ~RowExists(job[e]) /\ UNCHANGED status
    BY <1>5, <2>3 DEF Underway, Waiting, RowExists
  <2>4. CASE Finish(e) /\ status' = [status EXCEPT ![job[e]] = "indexed"]
    BY <1>0, <1>5, <2>4 DEF Underway, Waiting, TypeOK
  <2>5. QED
    BY <2>1, <2>2, <2>3, <2>4 DEF ExecPc
<1>6. QED
  BY <1>1, <1>2, <1>3, <1>4, <1>5, UnderwayStep

(* A task that is over has set its status to failed, sent the next message
   or left a trace.                                                        *)
LEMMA OutcomeUnderway ==
    ASSUME NoLostTask, TypeOK, TypeOK', \A d \in Doc : Underway(d), NEW e \in Exec,
           \/ LockBusy(e) \/ Release(e) \/ AttemptFailed(e) \/ RecordDead(e)
           \/ PublishRetry(e) \/ Ack(e)
    PROVE  \A d \in Doc : Underway(d)'
<1>0. WorkerTypeOK /\ job[e] \in Doc /\ UNCHANGED upload
  BY ExecDoc DEF TypeOK, LockBusy, Release, AttemptFailed, RecordDead, PublishRetry,
     Ack, api
<1>1. \A f \in Exec \ {e} : Apart(f)
  BY <1>0 DEF LockBusy, Release, AttemptFailed, RecordDead, PublishRetry, Ack,
     BecomeIdle, Goto, Apart, WorkerTypeOK, delivery
<1>2. CASE RecordDead(e) \/ Ack(e) \/ (Release(e) /\ outcome[e] # "error")
  <2>1. UNCHANGED <<status, queue, dropped>> /\ dead \subseteq dead' /\ ~Live(e)
    BY <1>2 DEF RecordDead, Ack, Release, Live, stores, broker
  <2>2. \A d \in Doc : Lasting(d)
    BY <2>1 DEF Lasting, TypeOK
  <2>3. QED
    BY <1>0, <1>1, <2>1, <2>2, UnderwayFrame DEF Waiting
<1>3. CASE Release(e) /\ outcome[e] = "error"
  <2>1. UNCHANGED <<status, queue, dropped, dead, job>>
    BY <1>3 DEF Release, stores, broker, delivery
  <2>2. \A d \in Doc : Lasting(d)
    BY <2>1 DEF Lasting, TypeOK
  <2>3. Live(e)'
    BY <1>0, <1>3 DEF Release, Goto, Live, WorkerTypeOK
  <2>4. QED
    BY <1>0, <1>1, <2>1, <2>2, <2>3, LiveUnderway, UnderwayStep
<1>4. CASE LockBusy(e)
  <2>1. UNCHANGED <<status, queue, dead, job>> /\ dropped \subseteq dropped'
    BY <1>4 DEF LockBusy, stores, delivery
  <2>2. \A d \in Doc : Lasting(d)
    BY <2>1 DEF Lasting, TypeOK
  <2>3. Live(e)' \/ job[e] \in dropped'
    BY <1>0, <1>4 DEF LockBusy, Goto, Live, WorkerTypeOK
  <2>4. ASSUME NEW d \in Doc, d = job[e] PROVE Underway(d)'
    BY <2>1, <2>3, <2>4, LiveUnderway DEF Underway, Traced
  <2>5. QED
    BY <1>0, <1>1, <2>1, <2>2, <2>4, UnderwayStep
<1>5. CASE AttemptFailed(e)
  <2>1. UNCHANGED <<queue, dropped, dead, job>>
    BY <1>5 DEF AttemptFailed, broker, delivery
  <2>2. \A d \in Doc : Lasting(d)
    BY <2>1 DEF Lasting, TypeOK
  <2>3. ~Fault("db")
    BY NoFault DEF NoLostTask, FaultKind
  <2>4. \A d \in Doc \ {job[e]} : status'[d] = status[d]
    BY <1>0, <1>5 DEF AttemptFailed, MarkFailed, TypeOK
  <2>5. ASSUME NEW d \in Doc, d = job[e] PROVE Underway(d)'
    <3>1. CASE Goto(e, "retry")
      BY <1>0, <2>1, <2>5, <3>1, LiveUnderway DEF Goto, Live, WorkerTypeOK
    <3>2. CASE MarkFailed(job[e], "failed")
      BY <1>0, <2>3, <2>5, <3>2 DEF MarkFailed, Underway, Waiting, RowExists, TypeOK
    <3>3. QED
      BY <1>5, <3>1, <3>2 DEF AttemptFailed
  <2>6. QED
    BY <1>0, <1>1, <2>2, <2>4, <2>5, UnderwayStep
<1>6. CASE PublishRetry(e)
  <2>1. UNCHANGED <<status, dropped, dead>>
    BY <1>6 DEF PublishRetry, stores
  <2>2. attempt[e] + 1 \in 0..MaxRetries
    <3>1. attempt[e] \in 0..MaxRetries /\ attempt[e] < MaxRetries
      BY <1>0, <1>6 DEF PublishRetry, WorkerTypeOK
    <3>2. QED
      BY <3>1
  <2>3. Send(job[e], attempt[e] + 1)
    BY <1>6, NoFault DEF PublishRetry, NoLostTask, FaultKind
  <2>4. (\A d \in Doc : Lasting(d)) /\ queue'[job[e]][attempt[e] + 1] > 0
    BY <1>0, <2>1, <2>2, <2>3, SendLasting
  <2>5. ASSUME NEW d \in Doc, d = job[e] PROVE Underway(d)'
    BY <2>2, <2>4, <2>5 DEF Underway
  <2>6. QED
    BY <1>0, <1>1, <2>1, <2>4, <2>5, UnderwayStep
<1>7. QED
  BY <1>2, <1>3, <1>4, <1>5, <1>6

(* Taking a message makes its document's next execution live, and what the
   broker gets back waits.                                                 *)
LEMMA DeliveryUnderway ==
    ASSUME NoLostTask, TraceInv, TypeOK', NEW e \in Exec,
           \/ \E d \in Doc, r \in 0..MaxRetries : Take(e, d, r)
           \/ Heartbeat(e) \/ WorkerLost(e) \/ Redeliver(e)
    PROVE  \A d \in Doc : Underway(d)'
<1>0. TypeOK /\ WorkerTypeOK /\ UNCHANGED <<status, upload>>
  BY DEF TraceInv, TypeOK, Take, Heartbeat, WorkerLost, Redeliver, stores, api
<1>1. CASE Heartbeat(e)
  <2>1. \A f \in Exec : Apart(f)
    BY <1>1 DEF Heartbeat, Apart, delivery
  <2>2. \A d \in Doc : Lasting(d)
    BY <1>0, <1>1 DEF Heartbeat, Lasting, TypeOK, broker
  <2>3. QED
    BY <1>0, <2>1, <2>2, UnderwayFrame DEF Waiting, TraceInv
<1>2. CASE Redeliver(e)
  <2>1. \A f \in Exec : Apart(f)
    BY <1>2 DEF Redeliver, Apart
  <2>2. job[e] \in Doc /\ attempt[e] \in 0..MaxRetries
    BY <1>0, <1>2, ExecDoc DEF Redeliver, WorkerTypeOK
  <2>3. \A d \in Doc : Lasting(d)
    BY <1>0, <1>2, <2>2, SendLasting DEF Redeliver
  <2>4. QED
    BY <1>0, <2>1, <2>3, UnderwayFrame DEF Waiting, TraceInv
<1>3. CASE WorkerLost(e)
  <2>1. job[e] \in Doc /\ attempt[e] \in 0..MaxRetries
    BY <1>0, <1>3, ExecDoc DEF WorkerLost, WorkerTypeOK
  <2>2. ~redelivered[e]
    BY <1>0, <1>3, NoFault DEF WorkerLost, NoLostTask, TraceInv, FaultKind
  <2>3. Send(job[e], attempt[e]) /\ UNCHANGED <<dropped, dead>>
    BY <1>3, <2>2 DEF WorkerLost
  <2>4. (\A d \in Doc : Lasting(d)) /\ queue'[job[e]][attempt[e]] > 0
    BY <1>0, <2>1, <2>3, SendLasting
  <2>5. \A f \in Exec \ {e} : Apart(f)
    BY <1>0, <1>3 DEF WorkerLost, BecomeIdle, Goto, Apart, WorkerTypeOK
  <2>6. ASSUME NEW d \in Doc, d = job[e] PROVE Underway(d)'
    BY <2>1, <2>4, <2>6 DEF Underway
  <2>7. QED
    BY <1>0, <2>4, <2>5, <2>6, UnderwayStep DEF TraceInv
<1>4. ASSUME NEW c \in Doc, NEW r \in 0..MaxRetries, Take(e, c, r)
      PROVE  \A d \in Doc : Underway(d)'
  <2>1. pc'[e] = "acquire" /\ job'[e] = c
    BY <1>0, <1>4 DEF Take, Goto, WorkerTypeOK
  <2>2. \A f \in Exec : f # e => Apart(f)
    BY <1>0, <1>4 DEF Take, Goto, Apart, WorkerTypeOK
  <2>3. ~Live(e) /\ UNCHANGED <<dropped, dead>>
    BY <1>4 DEF Take, Live
  <2>4. ASSUME NEW d \in Doc, d # c PROVE Underway(d)'
    <3>1. queue'[d] = queue[d] /\ queue[d] \in [0..MaxRetries -> Nat]
      BY <1>0, <1>4, <2>4 DEF Take, TypeOK
    <3>2. Lasting(d)
      BY <2>3, <3>1 DEF Lasting
    <3>3. QED
      BY <1>0, <2>2, <2>3, <3>2, UnderwayFrame DEF Waiting, TraceInv
  <2>5. Underway(c)'
    BY <2>1, LiveUnderway DEF Live
  <2>6. QED
    BY <2>4, <2>5
<1>5. QED
  BY <1>1, <1>2, <1>3, <1>4

(* Without redeliveries no delivery has been handed out twice. *)
LEMMA NextRedelivered ==
    ASSUME TypeOK, FaultBudget["redeliver"] = 0, \A e \in Exec : ~redelivered[e], [Next]_vars
    PROVE  \A e \in Exec : ~redelivered'[e]
<1>1. \A e \in Exec : ~Redeliver(e)
  BY NoFault DEF Redeliver, FaultKind
<1>2. CASE UNCHANGED redelivered
  BY <1>2
<1>3. ASSUME NEW e \in Exec, BecomeIdle(e)
      PROVE  \A f \in Exec : ~redelivered'[f]
  BY <1>3 DEF BecomeIdle, TypeOK, WorkerTypeOK
<1>4. ASSUME NEW d \in Doc,
             \/ UploadStep(d) \/ UploadCrash(d) \/ DeleteBegin(d) \/ DeleteStep(d)
             \/ DeleteCrash(d) \/ LockExpires(d) \/ Stall(d)
      PROVE  UNCHANGED redelivered
  BY <1>4 DEF UploadStep, UploadCrash, SaveFile, InsertRow, Enqueue, MarkEnqueueFailed,
     DeleteBegin, DeleteStep, DeleteVectors, DeleteCommit, DeleteFiles, DeleteCrash,
     LockExpires, Stall, worker, delivery
<1>5. ASSUME NEW e \in Exec,
             \/ \E d \in Doc, r \in 0..MaxRetries : Take(e, d, r)
             \/ ExecStep(e) \/ Heartbeat(e)
      PROVE  UNCHANGED redelivered \/ BecomeIdle(e)
  BY <1>5 DEF Take, Heartbeat, ExecStep, Acquire, AcquireError, LockBusy, Load, Convert,
     ReplaceChunks, ReadChunks, UpsertBatch, ListPoints, DeleteStale, CommitEmbeddings,
     Finish, Release, AttemptFailed, RecordDead, PublishRetry, Ack, delivery
<1>6. QED
  BY <1>1, <1>2, <1>3, <1>4, <1>5 DEF Next, WorkerLost, vars, worker, delivery

(* A document shown as uploaded or indexing has a message or an execution at
   work on it, or a trace, whatever crashes or redeliveries there are, but
   not both, and however many locks are lost and Redis commands fail.      *)
THEOREM NothingStopsSilently ==
    ASSUME NoLostTask
    PROVE  Spec => []NoSilentStop
<1>1. Init => TraceInv
  BY InitTypeOK DEF Init, TraceInv, Underway, Waiting
<1>2. TraceInv /\ [Next]_vars => TraceInv'
  <2> SUFFICES ASSUME TraceInv, [Next]_vars PROVE TraceInv'
    OBVIOUS
  <2>1. TypeOK /\ TypeOK'
    BY NextTypeOK DEF TraceInv
  <2>2. \A d \in Doc : Underway(d)'
    <3>1. CASE UNCHANGED vars
      <4>1. \A d \in Doc : Lasting(d)
        BY <2>1, <3>1 DEF Lasting, TypeOK, vars, broker
      <4>2. (\A f \in Exec : Apart(f)) /\ UNCHANGED <<status, upload>>
        BY <3>1 DEF Apart, vars, worker, delivery, stores, api
      <4>3. QED
        BY <2>1, <4>1, <4>2, UnderwayFrame DEF Waiting, TraceInv
    <3>2. CASE Next
      BY <2>1, <3>2, UploadUnderway, DeleteUnderway, AttemptUnderway, OutcomeUnderway,
         DeliveryUnderway DEF TraceInv, Next, ExecStep
    <3>3. QED
      BY <3>1, <3>2
  <2>3. QED
    BY <2>1, <2>2, NextRedelivered DEF TraceInv
<1>3. TraceInv => NoSilentStop
  <2> SUFFICES ASSUME TraceInv, NEW d \in Doc, Waiting(d)
               PROVE  Pending(d) \/ d \in dropped \/ d \in dead
    BY DEF NoSilentStop, Waiting
  <2>1. QED
    BY DEF TraceInv, Underway, Pending, Traced
<1>4. QED
  BY <1>1, <1>2, <1>3, PTL DEF Spec

-----------------------------------------------------------------------------
(* Safety when no lock is lost while its holder refreshes it (NoLockLoss),
   for any number of crashes, redeliveries and Redis, database and broker
   errors; and that the pipeline implements DocPublication then.           *)

-----------------------------------------------------------------------------
(* The lock key. *)

KeyInv == TypeOK /\ OwnsKey

(* An execution the step leaves alone keeps its key if the key is left. *)
LEMMA OwnsFrame ==
    ASSUME NEW f \in Exec, Owns(f), pc'[f] = pc[f], job'[f] = job[f],
           locked'[f] = locked[f], lost'[f] = lost[f],
           locked[f] => lock'[job[f]] = lock[job[f]]
    PROVE  Owns(f)'
BY DEF Owns, Working

(* A step of e that leaves the lock, its lease and its document alone. *)
LEMMA OwnsMove ==
    ASSUME KeyInv, NEW e \in Exec, UNCHANGED <<lock, lease, job>>,
           NEW l \in ExecPc, Goto(e, l), Working(e)' \/ l = "load" => locked[e],
           l \in {"idle", "acquire", "busy"} => ~locked[e]
    PROVE  OwnsKey'
<1>1. ASSUME NEW f \in Exec PROVE Owns(f)'
  <2>1. Owns(f)
    BY DEF KeyInv, OwnsKey
  <2>2. CASE f = e
    <3>1. pc'[e] = l
      BY DEF Goto, KeyInv, TypeOK, WorkerTypeOK
    <3>2. QED
      BY <2>1, <2>2, <3>1 DEF Owns, lease
  <2>3. CASE f # e
    <3>1. pc'[f] = pc[f]
      BY <2>3 DEF Goto, KeyInv, TypeOK, WorkerTypeOK
    <3>2. QED
      BY <2>1, <3>1, OwnsFrame DEF lease
  <2>4. QED
    BY <2>2, <2>3
<1>2. QED
  BY <1>1 DEF OwnsKey

(* Who has acquired a lock works on a document. *)
LEMMA LockedDoc ==
    ASSUME KeyInv, NEW f \in Exec, locked[f]
    PROVE  job[f] \in Doc
<1>1. pc[f] # "idle"
  BY DEF KeyInv, OwnsKey, Owns
<1>2. QED
  BY <1>1, ExecDoc DEF KeyInv

(* No other execution of the document has acquired the lock. *)
LEMMA OneOwner ==
    ASSUME KeyInv, NEW e \in Exec, NEW f \in Exec, locked[e], locked[f],
           job[e] = job[f]
    PROVE  e = f
BY DEF KeyInv, OwnsKey, Owns

(* A process that forgets its delivery owns nothing. *)
LEMMA OwnsIdle ==
    ASSUME KeyInv, NEW e \in Exec, BecomeIdle(e), UNCHANGED lock
    PROVE  OwnsKey'
<1>1. ASSUME NEW f \in Exec PROVE Owns(f)'
  <2>1. Owns(f)
    BY DEF KeyInv, OwnsKey
  <2>2. CASE f = e
    BY <2>2 DEF BecomeIdle, Goto, Owns, Working, KeyInv, TypeOK, WorkerTypeOK
  <2>3. CASE f # e
    <3>1. /\ pc'[f] = pc[f] /\ job'[f] = job[f] /\ locked'[f] = locked[f]
          /\ lost'[f] = lost[f]
      BY <2>3 DEF BecomeIdle, Goto, KeyInv, TypeOK, WorkerTypeOK
    <3>2. QED
      BY <2>1, <3>1, OwnsFrame
  <2>4. QED
    BY <2>2, <2>3
<1>2. QED
  BY <1>1 DEF OwnsKey

LEMMA ExecOwnsKey ==
    ASSUME KeyInv, NEW e \in Exec, ExecStep(e)
    PROVE  OwnsKey'
<1> USE DEF ExecPc, delivery
<1>0. TypeOK /\ WorkerTypeOK /\ Owns(e)
  BY DEF KeyInv, TypeOK, OwnsKey
<1>1. CASE Acquire(e)
  <2>1. ASSUME NEW f \in Exec PROVE Owns(f)'
    <3>1. Owns(f) /\ job[e] \in Doc
      BY <1>1, <1>0, ExecDoc DEF KeyInv, OwnsKey, Acquire
    <3>2. CASE f = e
      BY <1>0, <1>1, <3>1, <3>2 DEF Acquire, Goto, Owns, Working, TypeOK, WorkerTypeOK
    <3>3. CASE f # e
      <4>1. /\ pc'[f] = pc[f] /\ job'[f] = job[f] /\ locked'[f] = locked[f]
            /\ lost'[f] = lost[f]
        BY <1>0, <1>1, <3>3 DEF Acquire, Goto, WorkerTypeOK
      <4>2. locked[f] => lock'[job[f]] = lock[job[f]]
        BY <1>0, <1>1, <3>1, <3>3, LockedDoc DEF Acquire, Owns, TypeOK
      <4>3. QED
        BY <3>1, <4>1, <4>2, OwnsFrame
    <3>4. QED
      BY <3>2, <3>3
  <2>2. QED
    BY <2>1 DEF OwnsKey
<1>2. CASE AcquireError(e)
  <2>1. ASSUME NEW f \in Exec PROVE Owns(f)'
    <3>1. Owns(f) /\ job[e] \in Doc
      BY <1>2, <1>0, ExecDoc DEF KeyInv, OwnsKey, AcquireError
    <3>2. CASE f = e
      BY <1>0, <1>2, <3>1, <3>2
         DEF AcquireError, Raise, Goto, Owns, Working, WorkerTypeOK, lease
    <3>3. CASE f # e
      <4>1. /\ pc'[f] = pc[f] /\ job'[f] = job[f] /\ locked'[f] = locked[f]
            /\ lost'[f] = lost[f]
        BY <1>0, <1>2, <3>3 DEF AcquireError, Raise, Goto, WorkerTypeOK, lease
      <4>2. locked[f] => lock'[job[f]] = lock[job[f]]
        BY <1>0, <1>2, <3>1, <3>3, LockedDoc DEF AcquireError, Owns, TypeOK
      <4>3. QED
        BY <3>1, <4>1, <4>2, OwnsFrame
    <3>4. QED
      BY <3>2, <3>3
  <2>2. QED
    BY <2>1 DEF OwnsKey
<1>3. CASE LockBusy(e)
  BY <1>0, <1>3, OwnsMove DEF LockBusy, Goto, Working, WorkerTypeOK
<1>4. CASE \/ Load(e) \/ Convert(e) \/ ReplaceChunks(e) \/ ReadChunks(e)
           \/ UpsertBatch(e) \/ ListPoints(e) \/ DeleteStale(e)
           \/ CommitEmbeddings(e) \/ Finish(e)
  <2>1. locked[e]
    BY <1>0, <1>4 DEF Owns, Working, Load, Convert, ReplaceChunks, ReadChunks,
       UpsertBatch, ListPoints, DeleteStale, CommitEmbeddings, Finish
  <2>2. UNCHANGED <<lock, lease, job>>
    BY <1>4 DEF Load, Convert, ReplaceChunks, ReadChunks,
       UpsertBatch, ListPoints, DeleteStale, CommitEmbeddings, Finish
  <2>3. PICK l \in ExecPc \ {"idle", "acquire", "busy"} : Goto(e, l)
    BY <1>4 DEF Load, Convert, ReplaceChunks, ReadChunks, UpsertBatch,
       ListPoints, DeleteStale, CommitEmbeddings, Finish, Raise
  <2>4. QED
    BY <2>1, <2>2, <2>3, OwnsMove
<1>5. CASE Release(e)
  <2>1. ASSUME NEW f \in Exec PROVE Owns(f)'
    <3>1. Owns(f) /\ job[e] \in Doc
      BY <1>5, <1>0, ExecDoc DEF KeyInv, OwnsKey, Release
    <3>2. CASE f = e
      BY <1>0, <1>5, <3>1, <3>2 DEF Release, Goto, Owns, Working, WorkerTypeOK
    <3>3. CASE f # e
      <4>1. /\ pc'[f] = pc[f] /\ job'[f] = job[f] /\ locked'[f] = locked[f]
            /\ lost'[f] = lost[f]
        BY <1>0, <1>5, <3>3 DEF Release, Goto, WorkerTypeOK
      <4>2. locked[f] => lock'[job[f]] = lock[job[f]]
        <5>1. locked[e] /\ locked[f] => job[f] # job[e]
          BY <3>3, OneOwner
        <5>2. UNCHANGED lock \/ (locked[e] /\ lock' = [lock EXCEPT ![job[e]] = NoExec])
          BY <1>5 DEF Release
        <5>3. QED
          BY <1>0, <5>1, <5>2, LockedDoc DEF TypeOK
      <4>3. QED
        BY <3>1, <4>1, <4>2, OwnsFrame
    <3>4. QED
      BY <3>2, <3>3
  <2>2. QED
    BY <2>1 DEF OwnsKey
<1>6. CASE AttemptFailed(e) \/ RecordDead(e) \/ PublishRetry(e)
  <2>1. UNCHANGED <<lock, lease, job>>
    BY <1>6 DEF AttemptFailed, RecordDead, PublishRetry
  <2>2. PICK l \in {"retry", "record", "ack"} : Goto(e, l)
    BY <1>6 DEF AttemptFailed, RecordDead, PublishRetry
  <2>3. ~Working(e)'
    BY <1>0, <2>2 DEF Goto, Working, WorkerTypeOK
  <2>4. QED
    BY <2>1, <2>2, <2>3, OwnsMove
<1>7. CASE Ack(e)
  BY <1>7, OwnsIdle DEF Ack
<1>8. QED
  BY <1>1, <1>2, <1>3, <1>4, <1>5, <1>6, <1>7 DEF ExecStep

LEMMA NextOwnsKey ==
    ASSUME NoLockLoss, KeyInv, [Next]_vars
    PROVE  OwnsKey'
<1>0. TypeOK /\ WorkerTypeOK
  BY DEF KeyInv, TypeOK
<1>1. CASE UNCHANGED <<pc, job, locked, lost, lock>>
  BY <1>1 DEF KeyInv, OwnsKey, Owns, Working
<1>2. ASSUME NEW d \in Doc,
             \/ UploadStep(d) \/ UploadCrash(d)
             \/ DeleteBegin(d) \/ DeleteStep(d) \/ DeleteCrash(d)
      PROVE  UNCHANGED <<pc, job, locked, lost, lock>>
  BY <1>2 DEF UploadStep, SaveFile, InsertRow, Enqueue, MarkEnqueueFailed,
     UploadCrash, DeleteBegin, DeleteStep, DeleteVectors, DeleteCommit,
     DeleteFiles, DeleteCrash, worker, delivery, lease
<1>3. ASSUME NEW d \in Doc, LockExpires(d)
      PROVE  OwnsKey'
  <2>1. ASSUME NEW f \in Exec PROVE Owns(f)'
    <3>1. Owns(f)
      BY DEF KeyInv, OwnsKey
    <3>2. locked[f] => job[f] # d
      BY <1>3, <3>1 DEF LockExpires, Refreshed, Beating, Owns
    <3>3. locked[f] => lock'[job[f]] = lock[job[f]]
      BY <1>0, <1>3, <3>2 DEF LockExpires, TypeOK
    <3>4. UNCHANGED <<pc, job, locked, lost>>
      BY <1>3 DEF LockExpires, worker, delivery, lease
    <3>5. QED
      BY <3>1, <3>3, <3>4, OwnsFrame
  <2>2. QED
    BY <2>1 DEF OwnsKey
<1>4. ASSUME NEW d \in Doc, Stall(d)
      PROVE  FALSE
  BY <1>0, <1>4, NoFault DEF Stall, NoLockLoss, FaultKind
<1>5. ASSUME NEW e \in Exec, NEW d \in Doc, NEW r \in 0..MaxRetries, Take(e, d, r)
      PROVE  OwnsKey'
  <2>1. ASSUME NEW f \in Exec PROVE Owns(f)'
    <3>1. Owns(f)
      BY DEF KeyInv, OwnsKey
    <3>2. CASE f = e
      BY <1>0, <1>5, <3>1, <3>2 DEF Take, Goto, Owns, Working, WorkerTypeOK, lease
    <3>3. CASE f # e
      BY <1>0, <1>5, <3>1, <3>3, OwnsFrame DEF Take, Goto, WorkerTypeOK, lease
    <3>4. QED
      BY <3>2, <3>3
  <2>2. QED
    BY <2>1 DEF OwnsKey
<1>6. ASSUME NEW e \in Exec, Heartbeat(e)
      PROVE  FALSE
  <2>1. Owns(e)
    BY DEF KeyInv, OwnsKey
  <2>2. lock[job[e]] = NoExec
    BY <1>0, <1>6, NoFault DEF Heartbeat, NoLockLoss, FaultKind
  <2>3. QED
    BY <1>6, <2>1, <2>2 DEF Heartbeat, Beating, Owns
<1>7. ASSUME NEW e \in Exec, WorkerLost(e)
      PROVE  OwnsKey'
  BY <1>7, OwnsIdle DEF WorkerLost
<1>8. ASSUME NEW e \in Exec, Redeliver(e)
      PROVE  UNCHANGED <<pc, job, locked, lost, lock>>
  BY <1>8 DEF Redeliver, lease
<1>9. CASE UNCHANGED vars
  BY <1>1, <1>9 DEF vars, worker, delivery, lease
<1>10. CASE Next
  BY <1>1, <1>2, <1>3, <1>4, <1>5, <1>6, <1>7, <1>8, <1>10, ExecOwnsKey DEF Next
<1>11. QED
  BY <1>9, <1>10

LEMMA InitOwnsKey == Init => OwnsKey
BY DEF Init, OwnsKey, Owns, Working

LEMMA KeyInvariant ==
    ASSUME NoLockLoss
    PROVE  Spec => []KeyInv
<1>1. Init => KeyInv
  BY InitTypeOK, InitOwnsKey DEF KeyInv
<1>2. KeyInv /\ [Next]_vars => KeyInv'
  BY NextTypeOK, NextOwnsKey DEF KeyInv
<1>3. QED
  BY <1>1, <1>2, PTL DEF Spec

(* No two executions of a document hold its lock at once, however often the
   broker redelivers its message, as long as no lock is lost while it is
   refreshed.                                                              *)
THEOREM LockIsExclusive ==
    ASSUME NoLockLoss
    PROVE  Spec => []MutualExclusion
<1>1. KeyInv => MutualExclusion
  BY OneOwner DEF MutualExclusion
<1>2. QED
  BY <1>1, KeyInvariant, PTL

-----------------------------------------------------------------------------
(* The rows of documents and chunks. *)

(* A document the step leaves alone. *)
LEMMA RowFrame ==
    ASSUME NEW d \in Doc, RowConsistent(d), status'[d] = status[d],
           chunks'[d] = chunks[d], upload'[d] = upload[d], del'[d] = del[d],
           purged \subseteq purged'
    PROVE  RowConsistent(d)'
BY DEF RowConsistent, RowExists

(* A step that gives an existing row another status. *)
LEMMA RowStatus ==
    ASSUME TypeOK, RowsConsistent, NEW d \in Doc, RowExists(d),
           NEW s \in Status \ {"absent", "deleted"},
           status' = [status EXCEPT ![d] = s],
           UNCHANGED <<chunks, del, purged>>,
           \/ UNCHANGED upload
           \/ upload' = [upload EXCEPT ![d] = "done"]
    PROVE  RowsConsistent'
<1>1. ASSUME NEW c \in Doc PROVE RowConsistent(c)'
  BY DEF TypeOK, RowsConsistent, RowConsistent, RowExists
<1>2. QED
  BY <1>1 DEF RowsConsistent

LEMMA UploadRows ==
    ASSUME TypeOK, RowsConsistent, NEW d \in Doc, UploadStep(d) \/ UploadCrash(d)
    PROVE  RowsConsistent'
<1>0. ASSUME NEW c \in Doc PROVE RowConsistent(c)
  BY DEF RowsConsistent
<1>1. UNCHANGED <<chunks, del, purged>>
  BY DEF UploadStep, UploadCrash, SaveFile, InsertRow, Enqueue,
     MarkEnqueueFailed, stores
<1>2. CASE InsertRow(d)
  <2>1. ASSUME NEW c \in Doc PROVE RowConsistent(c)'
    BY <1>0, <1>1, <1>2 DEF InsertRow, RowConsistent, RowExists, TypeOK
  <2>2. QED
    BY <2>1 DEF RowsConsistent
<1>3. CASE MarkEnqueueFailed(d)
  <2>1. ASSUME NEW c \in Doc PROVE RowConsistent(c)'
    BY <1>0, <1>1, <1>3 DEF MarkEnqueueFailed, RowConsistent, RowExists, TypeOK
  <2>2. QED
    BY <2>1 DEF RowsConsistent
<1>4. CASE SaveFile(d) \/ Enqueue(d) \/ UploadCrash(d)
  <2>1. ASSUME NEW c \in Doc PROVE RowConsistent(c)'
    <3>1. UNCHANGED status
      BY <1>4 DEF SaveFile, Enqueue, UploadCrash, stores
    <3>2. upload'[c] \in {"none", "saved"} => upload[c] \in {"none", "saved"}
      BY <1>4 DEF SaveFile, Enqueue, UploadCrash, TypeOK
    <3>3. QED
      BY <1>0, <1>1, <3>1, <3>2 DEF RowConsistent, RowExists
  <2>2. QED
    BY <2>1 DEF RowsConsistent
<1>5. QED
  BY <1>2, <1>3, <1>4 DEF UploadStep

LEMMA DeleteRows ==
    ASSUME TypeOK, RowsConsistent, NEW d \in Doc,
           DeleteBegin(d) \/ DeleteStep(d) \/ DeleteCrash(d)
    PROVE  RowsConsistent'
<1>0. ASSUME NEW c \in Doc PROVE RowConsistent(c)
  BY DEF RowsConsistent
<1>1. UNCHANGED upload
  BY DEF DeleteBegin, DeleteStep, DeleteVectors, DeleteCommit, DeleteFiles, DeleteCrash
<1>2. CASE DeleteBegin(d)
  <2>1. ASSUME NEW c \in Doc PROVE RowConsistent(c)'
    BY <1>0, <1>1, <1>2 DEF DeleteBegin, RowConsistent, RowExists, TypeOK, stores
  <2>2. QED
    BY <2>1 DEF RowsConsistent
<1>3. CASE DeleteVectors(d)
  <2>1. ASSUME NEW c \in Doc PROVE RowConsistent(c)'
    BY <1>0, <1>1, <1>3 DEF DeleteVectors, EndDelete, RowConsistent, RowExists, TypeOK
  <2>2. QED
    BY <2>1 DEF RowsConsistent
<1>4. CASE DeleteCommit(d)
  <2>1. ASSUME NEW c \in Doc PROVE RowConsistent(c)'
    BY <1>0, <1>1, <1>4 DEF DeleteCommit, EndDelete, RowConsistent, RowExists, TypeOK
  <2>2. QED
    BY <2>1 DEF RowsConsistent
<1>5. CASE DeleteFiles(d) \/ DeleteCrash(d)
  <2>1. ASSUME NEW c \in Doc PROVE RowConsistent(c)'
    BY <1>0, <1>1, <1>5 DEF DeleteFiles, DeleteCrash, EndDelete, RowConsistent,
       RowExists, TypeOK, stores
  <2>2. QED
    BY <2>1 DEF RowsConsistent
<1>6. QED
  BY <1>2, <1>3, <1>4, <1>5 DEF DeleteStep

LEMMA ExecRows ==
    ASSUME TypeOK, RowsConsistent, NEW e \in Exec, ExecStep(e)
    PROVE  RowsConsistent'
<1>0. UNCHANGED <<upload, del, purged>>
  BY DEF ExecStep, Acquire, AcquireError, LockBusy, Load, Convert,
     ReplaceChunks, ReadChunks, UpsertBatch, ListPoints, DeleteStale,
     CommitEmbeddings, Finish, Release, AttemptFailed, RecordDead,
     PublishRetry, Ack, api
<1>1. CASE UNCHANGED <<status, chunks>>
  BY <1>0, <1>1, RowFrame DEF RowsConsistent
<1>2. CASE \/ Acquire(e) \/ AcquireError(e) \/ LockBusy(e) \/ Convert(e)
           \/ ReadChunks(e) \/ UpsertBatch(e) \/ ListPoints(e) \/ DeleteStale(e)
           \/ CommitEmbeddings(e) \/ Release(e) \/ RecordDead(e)
           \/ PublishRetry(e) \/ Ack(e)
  <2>1. UNCHANGED <<status, chunks>>
    BY <1>2 DEF Acquire, AcquireError, LockBusy, Convert, ReadChunks,
       UpsertBatch, ListPoints, DeleteStale, CommitEmbeddings, Release,
       RecordDead, PublishRetry, Ack, stores
  <2>2. QED
    BY <1>1, <2>1
<1>3. CASE Load(e) \/ Finish(e) \/ AttemptFailed(e)
  <2>1. job[e] \in Doc
    BY <1>3, ExecDoc DEF Load, Finish, AttemptFailed
  <2>2. UNCHANGED chunks
    BY <1>3 DEF Load, Finish, AttemptFailed
  <2>3. CASE UNCHANGED status
    BY <1>1, <2>2, <2>3
  <2>4. CASE /\ RowExists(job[e])
             /\ \E s \in {"indexing", "indexed", "uploaded", "failed"} :
                   status' = [status EXCEPT ![job[e]] = s]
    <3>1. PICK s \in {"indexing", "indexed", "uploaded", "failed"} :
                   status' = [status EXCEPT ![job[e]] = s]
      BY <2>4
    <3>2. s \in Status \ {"absent", "deleted"}
      BY DEF Status
    <3>3. QED
      BY <1>0, <2>1, <2>2, <2>4, <3>1, <3>2, RowStatus
  <2>5. QED
    BY <1>3, <2>3, <2>4 DEF Load, Finish, AttemptFailed, MarkFailed
<1>4. CASE ReplaceChunks(e)
  <2>1. job[e] \in Doc
    BY <1>4, ExecDoc DEF ReplaceChunks
  <2>2. CASE UNCHANGED chunks
    BY <1>1, <1>4, <2>2 DEF ReplaceChunks
  <2>3. CASE RowExists(job[e]) /\ chunks' = [chunks EXCEPT ![job[e]] = ids'[e]]
    <3>1. ASSUME NEW c \in Doc PROVE RowConsistent(c)'
      BY <1>0, <1>4, <2>3 DEF ReplaceChunks, RowsConsistent, RowConsistent,
         RowExists, TypeOK
    <3>2. QED
      BY <3>1 DEF RowsConsistent
  <2>4. QED
    BY <1>4, <2>2, <2>3 DEF ReplaceChunks
<1>5. QED
  BY <1>2, <1>3, <1>4 DEF ExecStep

LEMMA NextRows ==
    ASSUME TypeOK, RowsConsistent, [Next]_vars
    PROVE  RowsConsistent'
<1>1. CASE UNCHANGED <<status, chunks, upload, del, purged>>
  BY <1>1, RowFrame DEF RowsConsistent
<1>2. ASSUME NEW d \in Doc, LockExpires(d) \/ Stall(d)
      PROVE  UNCHANGED <<status, chunks, upload, del, purged>>
  BY <1>2 DEF LockExpires, Stall, stores, api
<1>3. ASSUME NEW e \in Exec,
             \/ \E d \in Doc, r \in 0..MaxRetries : Take(e, d, r)
             \/ Heartbeat(e) \/ WorkerLost(e) \/ Redeliver(e)
      PROVE  UNCHANGED <<status, chunks, upload, del, purged>>
  BY <1>3 DEF Take, Heartbeat, WorkerLost, Redeliver, stores, api
<1>4. CASE UNCHANGED vars
  BY <1>1, <1>4 DEF vars, stores, api
<1>5. CASE Next
  BY <1>1, <1>2, <1>3, <1>5, UploadRows, DeleteRows, ExecRows DEF Next
<1>6. QED
  BY <1>4, <1>5

LEMMA InitRows == Init => RowsConsistent
BY DEF Init, RowsConsistent, RowConsistent, RowExists

-----------------------------------------------------------------------------
(* Progress of the attempts and the documents shown as indexed. *)

(* What every actor but the execution that owns the lock of d leaves of d:
   it shows no document as indexed, and whoever takes points or chunks away
   is a delete request.                                                    *)
Calm(d) ==
    /\ purged \subseteq purged'
    /\ status'[d] = "absent" => status[d] = "absent"
    /\ status'[d] = "indexed" => status[d] = "indexed"
    /\ RowExists(d)' => /\ RowExists(d) \/ status[d] = "absent"
                        /\ chunks'[d] = chunks[d]
    /\ points'[d] \subseteq points[d]
    /\ d \notin purged' => points'[d] = points[d]

(* The execution stays where it is, or its attempt is over. *)
Steady(f) ==
    \/ pc'[f] = pc[f] /\ job'[f] = job[f] /\ ids'[f] = ids[f] /\ todo'[f] = todo[f]
    \/ ~Working(f)'

LEMMA CalmProgress ==
    ASSUME NEW f \in Exec, Progress(f), Steady(f), Calm(job[f])
    PROVE  Progress(f)'
<1>1. CASE ~Working(f)'
  BY <1>1 DEF Progress, Working
<1>2. CASE /\ pc'[f] = pc[f] /\ job'[f] = job[f] /\ ids'[f] = ids[f]
           /\ todo'[f] = todo[f] /\ Working(f)
  <2> DEFINE d == job[f]
  <2>1. status[d] \notin {"absent", "indexed"} /\ status'[d] \notin {"absent", "indexed"}
    BY <1>2 DEF Progress, Calm
  <2>2. RowExists(d)' => RowExists(d) /\ chunks'[d] = chunks[d]
    BY <2>1 DEF Calm
  <2>3. /\ points'[d] \subseteq points[d]
        /\ d \notin purged' => d \notin purged /\ points'[d] = points[d]
    BY DEF Calm
  <2>4. QED
    BY <1>2, <2>1, <2>2, <2>3 DEF Progress, Working, RowExists
<1>3. QED
  BY <1>1, <1>2 DEF Steady, Working

LEMMA CalmIndexed ==
    ASSUME IndexedIsSearchable, IndexedIsClean, NEW d \in Doc, Calm(d),
           status'[d] = "indexed"
    PROVE  /\ points'[d] \subseteq chunks'[d]
           /\ d \notin purged' => chunks'[d] # {} /\ points'[d] = chunks'[d]
BY DEF IndexedIsSearchable, IndexedIsClean, Calm, RowExists

(* The step of an actor that leaves every document calm. *)
LEMMA CalmStep ==
    ASSUME TypeOK, IndexedIsSearchable, IndexedIsClean, \A f \in Exec : Progress(f),
           \A d \in Doc : Calm(d), \A f \in Exec : Steady(f)
    PROVE  IndexedIsSearchable' /\ IndexedIsClean' /\ \A f \in Exec : Progress(f)'
<1>1. IndexedIsSearchable' /\ IndexedIsClean'
  BY CalmIndexed DEF IndexedIsSearchable, IndexedIsClean
<1>2. ASSUME NEW f \in Exec PROVE Progress(f)'
  <2>1. CASE job[f] \in Doc
    BY <2>1, CalmProgress
  <2>2. CASE job[f] \notin Doc
    <3>1. pc[f] = "idle"
      BY <2>2, ExecDoc
    <3>2. ~Working(f)'
      BY <3>1 DEF Steady, Working
    <3>3. QED
      BY <3>2 DEF Progress, Working
  <2>3. QED
    BY <2>1, <2>2
<1>3. QED
  BY <1>1, <1>2

LEMMA UploadCalm ==
    ASSUME TypeOK, RowsConsistent, NEW c \in Doc, UploadStep(c) \/ UploadCrash(c)
    PROVE  (\A d \in Doc : Calm(d)) /\ \A f \in Exec : Steady(f)
<1>1. UNCHANGED <<chunks, points, purged, pc, job, ids, todo>>
  BY DEF UploadStep, UploadCrash, SaveFile, InsertRow, Enqueue,
     MarkEnqueueFailed, stores, worker, delivery, work
<1>2. ASSUME NEW d \in Doc PROVE Calm(d)
  <2>1. CASE InsertRow(c)
    BY <1>1, <2>1 DEF InsertRow, Calm, RowExists, TypeOK, RowsConsistent, RowConsistent
  <2>2. CASE MarkEnqueueFailed(c)
    BY <1>1, <2>2 DEF MarkEnqueueFailed, Calm, RowExists, TypeOK
  <2>3. CASE SaveFile(c) \/ Enqueue(c) \/ UploadCrash(c)
    <3>1. UNCHANGED status
      BY <2>3 DEF SaveFile, Enqueue, UploadCrash, stores
    <3>2. QED
      BY <1>1, <3>1 DEF Calm, RowExists
  <2>4. QED
    BY <2>1, <2>2, <2>3 DEF UploadStep
<1>3. QED
  BY <1>1, <1>2 DEF Steady

LEMMA DeleteCalm ==
    ASSUME TypeOK, RowsConsistent, NEW c \in Doc,
           DeleteBegin(c) \/ DeleteStep(c) \/ DeleteCrash(c)
    PROVE  (\A d \in Doc : Calm(d)) /\ \A f \in Exec : Steady(f)
<1>1. UNCHANGED <<pc, job, ids, todo>>
  BY DEF DeleteBegin, DeleteStep, DeleteVectors, DeleteCommit, DeleteFiles,
     DeleteCrash, worker, delivery, work
<1>2. ASSUME NEW d \in Doc PROVE Calm(d)
  <2>1. CASE DeleteVectors(c)
    BY <2>1 DEF DeleteVectors, Calm, RowExists, TypeOK
  <2>2. CASE DeleteCommit(c)
    BY <2>2 DEF DeleteCommit, Calm, RowExists, TypeOK, RowsConsistent, RowConsistent
  <2>3. CASE DeleteBegin(c) \/ DeleteFiles(c) \/ DeleteCrash(c)
    <3>1. UNCHANGED <<status, chunks, points, purged>>
      BY <2>3 DEF DeleteBegin, DeleteFiles, DeleteCrash, stores
    <3>2. QED
      BY <3>1 DEF Calm, RowExists
  <2>4. QED
    BY <2>1, <2>2, <2>3 DEF DeleteStep
<1>3. QED
  BY <1>1, <1>2 DEF Steady

(* The steps of a worker process outside an attempt. *)
LEMMA TaskCalm ==
    ASSUME TypeOK, NEW e \in Exec,
           \/ \E d \in Doc, r \in 0..MaxRetries : Take(e, d, r)
           \/ Acquire(e) \/ AcquireError(e) \/ LockBusy(e) \/ Release(e)
           \/ AttemptFailed(e) \/ RecordDead(e) \/ PublishRetry(e) \/ Ack(e)
           \/ Heartbeat(e) \/ WorkerLost(e) \/ Redeliver(e)
    PROVE  (\A d \in Doc : Calm(d)) /\ \A f \in Exec : Steady(f)
<1>0. WorkerTypeOK
  BY DEF TypeOK
<1>1. UNCHANGED <<chunks, points, purged>>
  BY DEF Take, Acquire, AcquireError, LockBusy, Release, AttemptFailed,
     RecordDead, PublishRetry, Ack, Heartbeat, WorkerLost, Redeliver, stores, api
<1>2. ASSUME NEW d \in Doc PROVE Calm(d)
  <2>1. CASE AttemptFailed(e)
    BY <1>1, <2>1 DEF AttemptFailed, MarkFailed, Calm, RowExists, TypeOK
  <2>2. CASE UNCHANGED status
    BY <1>1, <2>2 DEF Calm, RowExists
  <2>3. QED
    BY <2>1, <2>2 DEF Take, Acquire, AcquireError, LockBusy, Release,
       RecordDead, PublishRetry, Ack, Heartbeat, WorkerLost, Redeliver, stores
<1>3. ASSUME NEW f \in Exec PROVE Steady(f)
  <2>1. CASE Heartbeat(e) \/ Redeliver(e)
    BY <2>1 DEF Heartbeat, Redeliver, Steady, delivery, work
  <2>2. CASE Ack(e) \/ WorkerLost(e)
    BY <1>0, <2>2 DEF Ack, WorkerLost, BecomeIdle, Goto, Steady, Working, WorkerTypeOK
  <2>3. CASE Release(e)
    BY <1>0, <2>3 DEF Release, Goto, Steady, Working, WorkerTypeOK, delivery
  <2>4. CASE \E d \in Doc, r \in 0..MaxRetries : Take(e, d, r)
    BY <1>0, <2>4 DEF Take, Goto, Steady, Working, WorkerTypeOK, work
  <2>5. CASE \/ Acquire(e) \/ AcquireError(e) \/ LockBusy(e)
             \/ AttemptFailed(e) \/ RecordDead(e) \/ PublishRetry(e)
    <3>1. UNCHANGED <<job, ids, todo>>
      BY <2>5 DEF Acquire, AcquireError, LockBusy, AttemptFailed, RecordDead,
         PublishRetry, delivery, work
    <3>2. PICK l \in {"load", "busy", "release", "retry", "ack", "record"} : Goto(e, l)
      BY <2>5 DEF Acquire, AcquireError, LockBusy, AttemptFailed, RecordDead,
         PublishRetry, Raise
    <3>3. QED
      BY <1>0, <3>1, <3>2 DEF Goto, Steady, Working, WorkerTypeOK
  <2>6. QED
    BY <2>1, <2>2, <2>3, <2>4, <2>5
<1>4. QED
  BY <1>2, <1>3

-----------------------------------------------------------------------------
(* The steps of an attempt.  They touch one document, whose lock no other
   execution owns.                                                         *)

AttemptStep(e) ==
    \/ Load(e) \/ Convert(e) \/ ReplaceChunks(e) \/ ReadChunks(e)
    \/ UpsertBatch(e) \/ ListPoints(e) \/ DeleteStale(e)
    \/ CommitEmbeddings(e) \/ Finish(e)

LEMMA AttemptOwner ==
    ASSUME KeyInv, NEW e \in Exec, AttemptStep(e)
    PROVE  locked[e] /\ job[e] \in Doc
<1>1. locked[e]
  BY DEF KeyInv, OwnsKey, Owns, Working, AttemptStep, Load, Convert, ReplaceChunks,
     ReadChunks, UpsertBatch, ListPoints, DeleteStale, CommitEmbeddings, Finish
<1>2. QED
  BY <1>1, LockedDoc

LEMMA AttemptElsewhere ==
    ASSUME TypeOK, NEW e \in Exec, AttemptStep(e), NEW d \in Doc, d # job[e]
    PROVE  Calm(d)
<1>1. UNCHANGED purged
  BY DEF AttemptStep, Load, Convert, ReplaceChunks, ReadChunks, UpsertBatch,
     ListPoints, DeleteStale, CommitEmbeddings, Finish, api
<1>2. /\ status'[d] = status[d]
      /\ chunks'[d] = chunks[d]
      /\ points'[d] = points[d]
  <2>1. CASE Load(e) \/ Finish(e)
    BY <2>1 DEF Load, Finish, TypeOK
  <2>2. CASE ReplaceChunks(e)
    BY <2>2 DEF ReplaceChunks, TypeOK
  <2>3. CASE UpsertBatch(e) \/ DeleteStale(e)
    BY <2>3 DEF UpsertBatch, DeleteStale, TypeOK
  <2>4. CASE Convert(e) \/ ReadChunks(e) \/ ListPoints(e) \/ CommitEmbeddings(e)
    BY <2>4 DEF Convert, ReadChunks, ListPoints, CommitEmbeddings, stores
  <2>5. QED
    BY <2>1, <2>2, <2>3, <2>4 DEF AttemptStep
<1>3. QED
  BY <1>1, <1>2 DEF Calm, RowExists

LEMMA AttemptOthers ==
    ASSUME KeyInv, NEW e \in Exec, AttemptStep(e), NEW f \in Exec, f # e, Progress(f)
    PROVE  Progress(f)'
<1>0. TypeOK /\ WorkerTypeOK
  BY DEF KeyInv, TypeOK
<1>1. pc'[f] = pc[f] /\ job'[f] = job[f] /\ ids'[f] = ids[f] /\ todo'[f] = todo[f]
  <2>1. UNCHANGED job
    BY DEF AttemptStep, Load, Convert, ReplaceChunks, ReadChunks, UpsertBatch,
       ListPoints, DeleteStale, CommitEmbeddings, Finish, delivery
  <2>2. PICK l \in ExecPc : Goto(e, l)
    BY DEF AttemptStep, Load, Convert, ReplaceChunks, ReadChunks, UpsertBatch,
       ListPoints, DeleteStale, CommitEmbeddings, Finish, Raise, ExecPc
  <2>3. pc'[f] = pc[f]
    BY <1>0, <2>2 DEF Goto, WorkerTypeOK
  <2>4. ids'[f] = ids[f]
    BY <1>0 DEF AttemptStep, Load, Convert, ReplaceChunks, ReadChunks, UpsertBatch,
       ListPoints, DeleteStale, CommitEmbeddings, Finish, work, WorkerTypeOK
  <2>5. todo'[f] = todo[f]
    BY <1>0 DEF AttemptStep, Load, Convert, ReplaceChunks, ReadChunks, UpsertBatch,
       ListPoints, DeleteStale, CommitEmbeddings, Finish, work, WorkerTypeOK
  <2>6. QED
    BY <2>1, <2>3, <2>4, <2>5
<1>2. CASE Working(f)
  <2>1. locked[f] /\ job[f] \in Doc
    BY <1>2, LockedDoc DEF KeyInv, OwnsKey, Owns
  <2>2. job[f] # job[e]
    BY <2>1, AttemptOwner, OneOwner
  <2>3. QED
    BY <1>0, <1>1, <2>1, <2>2, AttemptElsewhere, CalmProgress DEF Steady
<1>3. CASE ~Working(f)
  <2>1. ~Working(f)'
    BY <1>1, <1>3 DEF Working
  <2>2. QED
    BY <2>1 DEF Progress, Working
<1>4. QED
  BY <1>2, <1>3

(* IndexedIsSearchable and IndexedIsClean for one document. *)
Searchable(d) ==
    status[d] = "indexed" =>
        /\ points[d] \subseteq chunks[d]
        /\ d \notin purged => chunks[d] # {} /\ points[d] = chunks[d]

(* An attempt that raised is over. *)
LEMMA RaiseProgress ==
    ASSUME WorkerTypeOK, NEW e \in Exec, Raise(e)
    PROVE  Progress(e)'
BY DEF Raise, Goto, Progress, Working, WorkerTypeOK

(* An attempt's own step keeps what it has reached, and publishes only what is
   complete.                                                               *)
LEMMA AttemptSelf ==
    ASSUME KeyInv, RowsConsistent, NEW e \in Exec, AttemptStep(e), Progress(e)
    PROVE  Progress(e)' /\ Searchable(job[e])'
<1> DEFINE d == job[e]
<1>0. TypeOK /\ WorkerTypeOK
  BY DEF KeyInv, TypeOK
<1>1. job[e] \in Doc /\ UNCHANGED <<job, purged>>
  BY AttemptOwner DEF AttemptStep, Load, Convert, ReplaceChunks, ReadChunks,
     UpsertBatch, ListPoints, DeleteStale, CommitEmbeddings, Finish, delivery, api
<1>2. RowConsistent(d)
  BY <1>1 DEF RowsConsistent
<1>3. ~Load(e) => Working(e) /\ status[d] \notin {"absent", "indexed"}
  BY DEF Progress, Working, AttemptStep, Convert, ReplaceChunks, ReadChunks,
     UpsertBatch, ListPoints, DeleteStale, CommitEmbeddings, Finish
<1>4. CASE Load(e)
  <2>1. CASE Goto(e, "release")
    <3>1. Progress(e)'
      BY <1>0, <2>1 DEF Goto, Progress, Working, WorkerTypeOK
    <3>2. UNCHANGED status /\ ~RowExists(d)
      BY <1>0, <1>4, <2>1 DEF Load, Goto, WorkerTypeOK
    <3>3. QED
      BY <1>1, <3>1, <3>2 DEF Searchable, RowExists
  <2>2. CASE status' = [status EXCEPT ![d] = "indexing"] /\ Goto(e, "convert")
    <3>1. status'[d] = "indexing" /\ pc'[e] = "convert"
      BY <1>0, <1>1, <2>2 DEF Goto, TypeOK, WorkerTypeOK
    <3>2. QED
      BY <1>1, <3>1 DEF Progress, Working, Searchable
  <2>3. QED
    BY <1>4, <2>1, <2>2 DEF Load
<1>5. CASE Convert(e)
  <2>1. UNCHANGED status
    BY <1>5 DEF Convert, stores
  <2>2. ~Load(e)
    BY <1>5 DEF Convert, Load
  <2>3. CASE Goto(e, "replace")
    <3>1. pc'[e] = "replace"
      BY <1>0, <2>3 DEF Goto, WorkerTypeOK
    <3>2. QED
      BY <1>1, <1>3, <2>1, <2>2, <3>1 DEF Progress, Working, Searchable
  <2>4. QED
    BY <1>0, <1>1, <1>3, <1>5, <2>1, <2>2, <2>3, RaiseProgress DEF Convert, Searchable
<1>6. CASE ReplaceChunks(e)
  <2>1. UNCHANGED status
    BY <1>6 DEF ReplaceChunks
  <2>2. ~Load(e)
    BY <1>6 DEF ReplaceChunks, Load
  <2>3. CASE /\ \E n \in 1..MaxBatches :
                  ids' = [ids EXCEPT ![e] = nextId .. nextId + n - 1]
             /\ chunks' = [chunks EXCEPT ![d] = ids'[e]]
             /\ Goto(e, "reread")
    <3>1. pc'[e] = "reread" /\ ids'[e] = chunks'[d]
      BY <1>0, <1>1, <2>3 DEF Goto, TypeOK, WorkerTypeOK
    <3>2. chunks'[d] # {}
      <4>1. PICK n \in 1..MaxBatches :
                  ids' = [ids EXCEPT ![e] = nextId .. nextId + n - 1]
        BY <2>3
      <4>2. nextId \in nextId .. nextId + n - 1
        BY <1>0 DEF TypeOK
      <4>3. nextId \in ids'[e]
        BY <1>0, <4>1, <4>2 DEF WorkerTypeOK
      <4>4. QED
        BY <3>1, <4>3
    <3>3. QED
      BY <1>1, <1>3, <2>1, <2>2, <3>1, <3>2 DEF Progress, Working, Searchable
  <2>4. QED
    BY <1>0, <1>1, <1>3, <1>6, <2>1, <2>2, <2>3, RaiseProgress
       DEF ReplaceChunks, Searchable
<1>7. CASE ReadChunks(e)
  <2>1. UNCHANGED <<status, chunks, points>>
    BY <1>7 DEF ReadChunks, stores
  <2>2. ~Load(e)
    BY <1>7 DEF ReadChunks, Load
  <2>3. CASE /\ ids' = [ids EXCEPT ![e] = chunks[d]]
             /\ todo' = [todo EXCEPT ![e] = chunks[d]]
             /\ Goto(e, IF chunks[d] = {} THEN "finish" ELSE "upsert")
    <3>1. ids'[e] = chunks[d] /\ todo'[e] = chunks[d]
      BY <1>0, <2>3 DEF WorkerTypeOK
    <3>2. RowExists(d) => chunks[d] # {}
      BY <1>7 DEF ReadChunks, Progress
    <3>3. CASE chunks[d] = {}
      <4>1. pc'[e] = "finish"
        BY <1>0, <2>3, <3>3 DEF Goto, WorkerTypeOK
      <4>2. ~RowExists(d)'
        BY <1>1, <2>1, <3>2, <3>3 DEF RowExists
      <4>3. QED
        BY <1>1, <1>3, <2>1, <2>2, <4>1, <4>2 DEF Progress, Working, Searchable
    <3>4. CASE chunks[d] # {}
      <4>1. pc'[e] = "upsert"
        BY <1>0, <2>3, <3>4 DEF Goto, WorkerTypeOK
      <4>2. QED
        BY <1>1, <1>3, <2>1, <2>2, <3>1, <3>4, <4>1 DEF Progress, Working, Searchable
    <3>5. QED
      BY <3>3, <3>4
  <2>4. QED
    BY <1>0, <1>1, <1>3, <1>7, <2>1, <2>2, <2>3, RaiseProgress DEF ReadChunks, Searchable
<1>8. CASE UpsertBatch(e)
  <2>1. UNCHANGED <<status, chunks, ids>>
    BY <1>8 DEF UpsertBatch
  <2>2. ~Load(e) /\ pc[e] = "upsert"
    BY <1>8 DEF UpsertBatch, Load
  <2>3. Searchable(d)'
    BY <1>1, <1>3, <2>1, <2>2 DEF Searchable
  <2>4. ASSUME NEW i \in todo[e],
               points' = [points EXCEPT ![d] = @ \cup {i}],
               todo' = [todo EXCEPT ![e] = @ \ {i}],
               Goto(e, IF todo[e] = {i} THEN "list" ELSE "upsert")
        PROVE  Progress(e)'
    <3>1. points'[d] = points[d] \cup {i} /\ todo'[e] = todo[e] \ {i}
      BY <1>0, <1>1, <2>4 DEF TypeOK, WorkerTypeOK
    <3>2. pc'[e] = IF todo[e] = {i} THEN "list" ELSE "upsert"
      BY <1>0, <2>4 DEF Goto, WorkerTypeOK
    <3>3. RowExists(d) /\ d \notin purged => ids[e] \subseteq points'[d] \cup todo'[e]
      BY <2>2, <3>1 DEF Progress
    <3>4. RowExists(d) => ids[e] = chunks[d] /\ chunks[d] # {}
      BY <2>2 DEF Progress
    <3>5. CASE todo[e] = {i}
      <4>1. pc'[e] = "list" /\ todo'[e] = {}
        BY <3>1, <3>2, <3>5
      <4>2. QED
        BY <1>1, <1>3, <2>1, <2>2, <3>3, <3>4, <4>1 DEF Progress, Working, RowExists
    <3>6. CASE todo[e] # {i}
      <4>1. pc'[e] = "upsert" /\ todo'[e] # {}
        BY <3>1, <3>2, <3>6
      <4>2. QED
        BY <1>1, <1>3, <2>1, <2>2, <3>3, <3>4, <4>1 DEF Progress, Working, RowExists
    <3>7. QED
      BY <3>5, <3>6
  <2>5. QED
    BY <1>0, <1>8, <2>3, <2>4, RaiseProgress DEF UpsertBatch
<1>9. CASE ListPoints(e)
  <2>1. UNCHANGED <<status, chunks, points, ids>>
    BY <1>9 DEF ListPoints, stores
  <2>2. ~Load(e) /\ pc[e] = "list"
    BY <1>9 DEF ListPoints, Load
  <2>3. Searchable(d)'
    BY <1>1, <1>3, <2>1, <2>2 DEF Searchable
  <2>4. CASE /\ todo' = [todo EXCEPT ![e] = points[d] \ ids[e]]
             /\ Goto(e, IF points[d] \subseteq ids[e] THEN "embed" ELSE "purge")
    <3>1. todo'[e] = points[d] \ ids[e]
      BY <1>0, <2>4 DEF WorkerTypeOK
    <3>2. pc'[e] = IF points[d] \subseteq ids[e] THEN "embed" ELSE "purge"
      BY <1>0, <2>4 DEF Goto, WorkerTypeOK
    <3>3. RowExists(d) /\ d \notin purged => ids[e] \subseteq points[d]
      BY <2>2 DEF Progress
    <3>4. RowExists(d) => ids[e] = chunks[d] /\ chunks[d] # {}
      BY <2>2 DEF Progress
    <3>5. CASE points[d] \subseteq ids[e]
      <4>1. pc'[e] = "embed"
        BY <3>2, <3>5
      <4>2. RowExists(d) /\ d \notin purged => ids[e] \subseteq points[d]
        BY <3>3
      <4>3. QED
        BY <1>1, <1>3, <2>1, <2>2, <2>3, <3>4, <3>5, <4>1, <4>2
           DEF Progress, Working, RowExists
    <3>6. CASE ~(points[d] \subseteq ids[e])
      <4>1. pc'[e] = "purge"
        BY <3>2, <3>6
      <4>2. todo'[e] \cap ids[e] = {}
        BY <3>1
      <4>3. points[d] \subseteq ids[e] \cup todo'[e]
        BY <3>1
      <4>4. QED
        BY <1>1, <1>3, <2>1, <2>2, <2>3, <3>3, <3>4, <4>1, <4>2, <4>3
           DEF Progress, Working, RowExists
    <3>7. QED
      BY <3>5, <3>6
  <2>5. QED
    BY <1>0, <1>9, <2>3, <2>4, RaiseProgress DEF ListPoints
<1>10. CASE DeleteStale(e)
  <2>1. UNCHANGED <<status, chunks, ids>>
    BY <1>10 DEF DeleteStale
  <2>2. ~Load(e) /\ pc[e] = "purge"
    BY <1>10 DEF DeleteStale, Load
  <2>3. Searchable(d)'
    BY <1>1, <1>3, <2>1, <2>2 DEF Searchable
  <2>4. CASE points' = [points EXCEPT ![d] = @ \ todo[e]] /\ Goto(e, "embed")
    <3>1. points'[d] = points[d] \ todo[e] /\ pc'[e] = "embed"
      BY <1>0, <1>1, <2>4 DEF Goto, TypeOK, WorkerTypeOK
    <3>2. /\ RowExists(d) => points'[d] \subseteq ids[e]
          /\ RowExists(d) /\ d \notin purged => ids[e] \subseteq points'[d]
      BY <2>2, <3>1 DEF Progress
    <3>3. RowExists(d) => ids[e] = chunks[d] /\ chunks[d] # {}
      BY <2>2 DEF Progress
    <3>4. QED
      BY <1>1, <1>3, <2>1, <2>2, <2>3, <3>1, <3>2, <3>3 DEF Progress, Working, RowExists
  <2>5. QED
    BY <1>0, <1>10, <2>3, <2>4, RaiseProgress DEF DeleteStale
<1>11. CASE CommitEmbeddings(e)
  <2>1. UNCHANGED <<status, chunks, points, ids>>
    BY <1>11 DEF CommitEmbeddings, stores, work
  <2>2. ~Load(e) /\ pc[e] = "embed"
    BY <1>11 DEF CommitEmbeddings, Load
  <2>3. Searchable(d)'
    BY <1>1, <1>3, <2>1, <2>2 DEF Searchable
  <2>4. CASE Goto(e, "finish")
    <3>1. pc'[e] = "finish"
      BY <1>0, <2>4 DEF Goto, WorkerTypeOK
    <3>2. QED
      BY <1>1, <1>3, <2>1, <2>2, <2>3, <3>1 DEF Progress, Working, RowExists
  <2>5. QED
    BY <1>0, <1>11, <2>3, <2>4, RaiseProgress DEF CommitEmbeddings
<1>12. CASE Finish(e)
  <2>1. pc'[e] = "release"
    BY <1>0, <1>12 DEF Finish, Raise, Goto, WorkerTypeOK
  <2>2. Progress(e)'
    BY <2>1 DEF Progress, Working
  <2>3. Searchable(d)'
    <3>1. UNCHANGED <<chunks, points>> /\ pc[e] = "finish"
      BY <1>12 DEF Finish
    <3>2. CASE UNCHANGED status
      <4>1. ~Load(e)
        BY <3>1 DEF Load
      <4>2. QED
        BY <1>1, <1>3, <3>2, <4>1 DEF Searchable
    <3>3. CASE RowExists(d)
      <4>1. /\ ids[e] = chunks[d] /\ chunks[d] # {} /\ points[d] \subseteq ids[e]
            /\ d \notin purged => ids[e] \subseteq points[d]
        BY <3>1, <3>3 DEF Progress
      <4>2. points[d] \subseteq chunks[d]
        BY <4>1
      <4>3. d \notin purged => points[d] = chunks[d]
        BY <4>1
      <4>4. /\ UNCHANGED <<job, purged, chunks, points>>
            /\ d \notin purged => chunks[d] # {} /\ points[d] = chunks[d]
        BY <1>1, <3>1, <4>1, <4>3
      <4>5. QED
        BY <4>2, <4>4 DEF Searchable
    <3>4. QED
      BY <1>12, <3>2, <3>3 DEF Finish
  <2>4. QED
    BY <2>2, <2>3
<1>13. QED
  BY <1>4, <1>5, <1>6, <1>7, <1>8, <1>9, <1>10, <1>11, <1>12 DEF AttemptStep

-----------------------------------------------------------------------------
(* The invariant. *)

LEMMA NextProgress ==
    ASSUME KeyInv, RowsConsistent, IndexedIsSearchable, IndexedIsClean,
           \A f \in Exec : Progress(f), [Next]_vars
    PROVE  IndexedIsSearchable' /\ IndexedIsClean' /\ \A f \in Exec : Progress(f)'
<1>0. TypeOK
  BY DEF KeyInv
<1>1. CASE (\A d \in Doc : Calm(d)) /\ \A f \in Exec : Steady(f)
  BY <1>0, <1>1, CalmStep
<1>2. ASSUME NEW e \in Exec, AttemptStep(e)
      PROVE  IndexedIsSearchable' /\ IndexedIsClean' /\ \A f \in Exec : Progress(f)'
  <2>1. Progress(e)' /\ Searchable(job[e])'
    BY <1>2, AttemptSelf
  <2>2. \A f \in Exec : Progress(f)'
    BY <1>2, <2>1, AttemptOthers
  <2>3. UNCHANGED job
    BY <1>2 DEF AttemptStep, Load, Convert, ReplaceChunks, ReadChunks,
       UpsertBatch, ListPoints, DeleteStale, CommitEmbeddings, Finish, delivery
  <2>4. ASSUME NEW d \in Doc PROVE Searchable(d)'
    <3>1. CASE d = job[e]
      BY <2>1, <2>3, <3>1 DEF Searchable
    <3>2. CASE d # job[e]
      BY <1>0, <1>2, <3>2, AttemptElsewhere, CalmIndexed DEF Searchable
    <3>3. QED
      BY <3>1, <3>2
  <2>5. QED
    BY <2>2, <2>4 DEF IndexedIsSearchable, IndexedIsClean, Searchable
<1>3. ASSUME NEW d \in Doc, LockExpires(d) \/ Stall(d)
      PROVE  (\A c \in Doc : Calm(c)) /\ \A f \in Exec : Steady(f)
  BY <1>3 DEF LockExpires, Stall, Calm, Steady, RowExists, stores, api, worker,
     delivery, work
<1>4. CASE UNCHANGED vars
  BY <1>1, <1>4 DEF vars, Calm, Steady, RowExists, stores, api, worker,
     delivery, work
<1>5. CASE Next
  BY <1>0, <1>1, <1>2, <1>3, <1>5, UploadCalm, DeleteCalm, TaskCalm
     DEF Next, ExecStep, AttemptStep
<1>6. QED
  BY <1>4, <1>5

LEMMA InitProgress ==
    Init => IndexedIsSearchable /\ IndexedIsClean /\ \A f \in Exec : Progress(f)
BY DEF Init, IndexedIsSearchable, IndexedIsClean, Progress, Working

(* The invariant behind the results: the types, who owns the lock, which
   rows exist, and how far each attempt has come.                          *)
THEOREM Invariant ==
    ASSUME NoLockLoss
    PROVE  Spec => []IInv
<1>1. Init => IInv
  BY InitTypeOK, InitOwnsKey, InitRows, InitProgress DEF IInv
<1>2. IInv /\ [Next]_vars => IInv'
  BY NextTypeOK, NextOwnsKey, NextRows, NextProgress DEF IInv, KeyInv
<1>3. QED
  BY <1>1, <1>2, PTL DEF Spec

(* A document shown as indexed has chunk rows and Qdrant holds exactly their
   points, unless a delete request removed them and failed to commit.      *)
THEOREM IndexedStaysSearchable ==
    ASSUME NoLockLoss
    PROVE  Spec => []IndexedIsSearchable
<1>1. IInv => IndexedIsSearchable
  BY DEF IInv
<1>2. QED
  BY <1>1, Invariant, PTL

(* The cleanup of stale points spares the points of live chunk rows. *)
THEOREM CleanupIsSafe ==
    ASSUME NoLockLoss
    PROVE  Spec => CleanupSparesLiveChunks
<1>1. ASSUME IInv, [Next]_vars, NEW d \in Doc,
             (points[d] \ points'[d]) \cap chunks[d] # {}
      PROVE  d \in purged'
  <2>0. KeyInv /\ TypeOK /\ RowsConsistent
    BY <1>1 DEF IInv, KeyInv
  <2>1. ASSUME \A c \in Doc : Calm(c) PROVE d \in purged'
    BY <1>1, <2>1 DEF Calm
  <2>2. ASSUME NEW e \in Exec, AttemptStep(e) PROVE d \in purged'
    <3>1. CASE d # job[e]
      BY <1>1, <2>0, <2>2, <3>1, AttemptElsewhere DEF Calm
    <3>2. CASE d = job[e] /\ DeleteStale(e)
      <4>1. points'[d] = points[d] \/ points'[d] = points[d] \ todo[e]
        BY <2>0, <3>2 DEF DeleteStale, TypeOK
      <4>2. pc[e] = "purge" /\ Progress(e) /\ RowConsistent(d)
        BY <1>1, <2>0, <3>2 DEF DeleteStale, IInv, RowsConsistent
      <4>3. todo[e] \cap chunks[d] = {}
        BY <3>2, <4>2 DEF Progress, RowConsistent
      <4>4. QED
        BY <1>1, <4>1, <4>3
    <3>3. CASE d = job[e] /\ UpsertBatch(e)
      BY <1>1, <2>0, <3>3 DEF UpsertBatch, TypeOK
    <3>4. CASE ~DeleteStale(e) /\ ~UpsertBatch(e)
      BY <1>1, <2>2, <3>4 DEF AttemptStep, Load, Convert, ReplaceChunks,
         ReadChunks, ListPoints, CommitEmbeddings, Finish, stores
    <3>5. QED
      BY <3>1, <3>2, <3>3, <3>4
  <2>3. ASSUME NEW c \in Doc, LockExpires(c) \/ Stall(c) PROVE UNCHANGED points
    BY <2>3 DEF LockExpires, Stall, stores
  <2>4. CASE UNCHANGED vars
    BY <1>1, <2>4 DEF vars, stores
  <2>5. CASE Next
    BY <1>1, <2>0, <2>1, <2>2, <2>3, <2>5, UploadCalm, DeleteCalm, TaskCalm
       DEF Next, ExecStep, AttemptStep
  <2>6. QED
    BY <1>1, <2>4, <2>5
<1>2. IInv /\ [Next]_vars =>
        [\A d \in Doc : (points[d] \ points'[d]) \cap chunks[d] # {} => d \in purged']_vars
  BY <1>1
<1>3. QED
  BY <1>2, Invariant, PTL DEF Spec, CleanupSparesLiveChunks

-----------------------------------------------------------------------------
(* The refinement of DocPublication, step by step. *)

(* A step that neither changes a status nor touches the points of a document
   shown as indexed is a stutter of the abstract specification.            *)
LEMMA Stutter ==
    ASSUME UNCHANGED <<status, purged>>,
           \A d \in Doc : status[d] = "indexed" => points'[d] = points[d]
    PROVE  UNCHANGED Pub!vars
<1>1. Served' = Served
  BY DEF Served
<1>2. QED
  BY <1>1 DEF Pub!vars

(* An existing row that is given a status other than indexed is withdrawn. *)
LEMMA WithdrawStep ==
    ASSUME TypeOK, NEW d \in Doc, RowExists(d),
           NEW s \in {"indexing", "uploaded", "failed"},
           status' = [status EXCEPT ![d] = s], UNCHANGED <<points, purged>>
    PROVE  Pub!Next
<1>1. Served' = [Served EXCEPT ![d] = {}]
  BY DEF Served, TypeOK
<1>2. Pub!Withdraw(d)
  BY <1>1 DEF Pub!Withdraw, Pub!Exists, RowExists
<1>3. QED
  BY <1>2 DEF Pub!Next

LEMMA UploadRefines ==
    ASSUME IInv, NEW d \in Doc, UploadStep(d) \/ UploadCrash(d)
    PROVE  [Pub!Next]_(Pub!vars)
<1>1. UNCHANGED <<points, purged>>
  BY DEF UploadStep, UploadCrash, SaveFile, InsertRow, Enqueue,
     MarkEnqueueFailed, stores
<1>2. CASE UNCHANGED status
  BY <1>1, <1>2, Stutter
<1>3. CASE InsertRow(d) /\ status' = [status EXCEPT ![d] = "uploaded"]
  <2>1. status[d] = "absent"
    BY <1>3 DEF InsertRow, IInv, RowsConsistent, RowConsistent
  <2>2. Served' = Served
    BY <1>1, <1>3, <2>1 DEF Served, IInv, TypeOK
  <2>3. Pub!Create(d)
    BY <1>1, <1>3, <2>1, <2>2 DEF Pub!Create
  <2>4. QED
    BY <2>3 DEF Pub!Next
<1>4. CASE RowExists(d) /\ status' = [status EXCEPT ![d] = "failed"]
  BY <1>1, <1>4, WithdrawStep DEF IInv
<1>5. QED
  BY <1>2, <1>3, <1>4 DEF UploadStep, UploadCrash, SaveFile, InsertRow,
     Enqueue, MarkEnqueueFailed, stores

LEMMA DeleteRefines ==
    ASSUME IInv, NEW d \in Doc, DeleteBegin(d) \/ DeleteStep(d) \/ DeleteCrash(d)
    PROVE  [Pub!Next]_(Pub!vars)
<1>0. TypeOK /\ RowConsistent(d)
  BY DEF IInv, RowsConsistent
<1>1. CASE UNCHANGED <<status, points, purged>>
  BY <1>1, Stutter
<1>2. CASE /\ DeleteVectors(d)
           /\ points' = [points EXCEPT ![d] = {}]
           /\ purged' = purged \cup {d}
  <2>1. UNCHANGED status
    BY <1>2 DEF DeleteVectors
  <2>2. Served' = [Served EXCEPT ![d] = {}]
    BY <1>0, <1>2, <2>1 DEF Served, TypeOK
  <2>3. Pub!Purge(d)
    BY <1>2, <2>1, <2>2 DEF Pub!Purge
  <2>4. QED
    BY <2>3 DEF Pub!Next
<1>3. CASE DeleteCommit(d) /\ status' = [status EXCEPT ![d] = "deleted"]
  <2>1. UNCHANGED <<points, purged>> /\ d \in purged /\ status[d] # "absent"
    BY <1>0, <1>3 DEF DeleteCommit, RowConsistent
  <2>2. Served' = [Served EXCEPT ![d] = {}]
    BY <1>0, <1>3, <2>1 DEF Served, TypeOK
  <2>3. CASE RowExists(d)
    <3>1. Pub!Delete(d)
      BY <1>3, <2>1, <2>2, <2>3 DEF Pub!Delete, Pub!Exists, RowExists
    <3>2. QED
      BY <3>1 DEF Pub!Next
  <2>4. CASE status[d] = "deleted"
    BY <1>0, <1>1, <1>3, <2>1, <2>4 DEF TypeOK
  <2>5. QED
    BY <2>1, <2>3, <2>4 DEF RowExists
<1>4. CASE DeleteBegin(d) \/ DeleteFiles(d) \/ DeleteCrash(d)
  BY <1>1, <1>4 DEF DeleteBegin, DeleteFiles, DeleteCrash, stores
<1>5. QED
  BY <1>1, <1>2, <1>3, <1>4 DEF DeleteStep, DeleteVectors, DeleteCommit

LEMMA AttemptRefines ==
    ASSUME IInv, IInv', NEW e \in Exec, AttemptStep(e)
    PROVE  [Pub!Next]_(Pub!vars)
<1> DEFINE d == job[e]
<1>0. TypeOK /\ KeyInv /\ Progress(e)
  BY DEF IInv, KeyInv
<1>1. d \in Doc /\ UNCHANGED <<job, purged>>
  BY <1>0, AttemptOwner DEF AttemptStep, Load, Convert, ReplaceChunks, ReadChunks,
     UpsertBatch, ListPoints, DeleteStale, CommitEmbeddings, Finish, delivery, api
<1>2. CASE UNCHANGED <<status, points>>
  BY <1>1, <1>2, Stutter
<1>3. CASE Load(e)
  <2>1. UNCHANGED points
    BY <1>3 DEF Load
  <2>2. CASE RowExists(d) /\ status' = [status EXCEPT ![d] = "indexing"]
    BY <1>0, <1>1, <2>1, <2>2, WithdrawStep
  <2>3. QED
    BY <1>2, <1>3, <2>1, <2>2 DEF Load
<1>4. CASE UpsertBatch(e) \/ DeleteStale(e)
  <2>1. status[d] # "indexed" /\ UNCHANGED status
    BY <1>0, <1>4 DEF Progress, Working, UpsertBatch, DeleteStale
  <2>2. ASSUME NEW c \in Doc, c # d PROVE points'[c] = points[c]
    BY <1>0, <1>1, <1>4, <2>2 DEF UpsertBatch, DeleteStale, TypeOK
  <2>3. QED
    BY <1>1, <2>1, <2>2, Stutter
<1>5. CASE /\ Finish(e)
           /\ RowExists(d)
           /\ status' = [status EXCEPT ![d] = "indexed"]
  <2>1. UNCHANGED points /\ status[d] # "indexed"
    BY <1>0, <1>5 DEF Finish, Progress, Working
  <2>2. status'[d] = "indexed"
    BY <1>0, <1>1, <1>5 DEF TypeOK
  <2>3. Served' = [Served EXCEPT ![d] = Served'[d]]
    BY <1>0, <1>1, <1>5, <2>1 DEF Served, TypeOK
  <2>4. Served'[d] \subseteq Nat
    BY <1>0, <1>1, <2>1, <2>2 DEF Served, TypeOK
  <2>5. Served'[d] = {} => d \in purged
    BY <1>1, <2>2 DEF Served, IInv, IndexedIsSearchable
  <2>6. Pub!Publish(d)
    BY <1>1, <1>5, <2>1, <2>3, <2>4, <2>5 DEF Pub!Publish, Pub!Exists, RowExists
  <2>7. QED
    BY <1>1, <2>6 DEF Pub!Next
<1>6. CASE Finish(e) /\ UNCHANGED status
  BY <1>2, <1>6 DEF Finish
<1>7. CASE \/ Convert(e) \/ ReplaceChunks(e) \/ ReadChunks(e) \/ ListPoints(e)
           \/ CommitEmbeddings(e)
  BY <1>2, <1>7 DEF Convert, ReplaceChunks, ReadChunks, ListPoints,
     CommitEmbeddings, stores
<1>8. QED
  BY <1>3, <1>4, <1>5, <1>6, <1>7 DEF AttemptStep, Finish

LEMMA TaskRefines ==
    ASSUME IInv, NEW e \in Exec,
           \/ \E d \in Doc, r \in 0..MaxRetries : Take(e, d, r)
           \/ Acquire(e) \/ AcquireError(e) \/ LockBusy(e) \/ Release(e)
           \/ AttemptFailed(e) \/ RecordDead(e) \/ PublishRetry(e) \/ Ack(e)
           \/ Heartbeat(e) \/ WorkerLost(e) \/ Redeliver(e)
    PROVE  [Pub!Next]_(Pub!vars)
<1>1. UNCHANGED <<points, purged>>
  BY DEF Take, Acquire, AcquireError, LockBusy, Release, AttemptFailed,
     RecordDead, PublishRetry, Ack, Heartbeat, WorkerLost, Redeliver, stores, api
<1>2. CASE UNCHANGED status
  BY <1>1, <1>2, Stutter
<1>3. CASE AttemptFailed(e)
  <2>1. TypeOK /\ job[e] \in Doc
    BY <1>3, ExecDoc DEF AttemptFailed, IInv
  <2>2. ASSUME NEW s \in {"uploaded", "failed"}, MarkFailed(job[e], s)
        PROVE  [Pub!Next]_(Pub!vars)
    BY <1>1, <1>2, <2>1, <2>2, WithdrawStep DEF MarkFailed
  <2>3. QED
    BY <1>3, <2>2 DEF AttemptFailed
<1>4. QED
  BY <1>2, <1>3 DEF Take, Acquire, AcquireError, LockBusy, Release,
     RecordDead, PublishRetry, Ack, Heartbeat, WorkerLost, Redeliver, stores

LEMMA NextRefines ==
    ASSUME IInv, IInv', [Next]_vars
    PROVE  [Pub!Next]_(Pub!vars)
<1>1. CASE UNCHANGED vars
  BY <1>1, Stutter DEF vars, stores, api
<1>2. ASSUME NEW d \in Doc, LockExpires(d) \/ Stall(d)
      PROVE  [Pub!Next]_(Pub!vars)
  BY <1>2, Stutter DEF LockExpires, Stall, stores, api
<1>3. QED
  BY <1>1, <1>2, UploadRefines, DeleteRefines, AttemptRefines, TaskRefines
     DEF Next, ExecStep, AttemptStep

(* Every behaviour of the pipeline, its crashes, retries and redeliveries
   included, publishes and withdraws the points of a document atomically.  *)
THEOREM Refinement ==
    ASSUME NoLockLoss
    PROVE  Spec => PublishesAtomically
<1>1. Init => Pub!Init
  BY DEF Init, Pub!Init, Served
<1>2. IInv /\ IInv' /\ [Next]_vars => [Pub!Next]_(Pub!vars)
  BY NextRefines
<1>3. QED
  BY <1>1, <1>2, Invariant, PTL DEF Spec, PublishesAtomically

-----------------------------------------------------------------------------
(* The garbage collector beside the pipeline. *)

USE GcAssumption

-----------------------------------------------------------------------------
(* Types. *)

(* The result of a query over documents. *)
LEMMA QueryResult ==
    ASSUME NEW S \in SUBSET Doc, NEW s \in SetToSeqs(S)
    PROVE  s \in Seq(Doc) /\ \A i \in DOMAIN s : s[i] \in S
<1>1. IsFiniteSet(S)
  BY FS_Subset
<1>2. Cardinality(S) \in Nat
  BY <1>1, FS_CardinalityType
<1>3. s \in [1 .. Cardinality(S) -> S]
  BY DEF SetToSeqs
<1>4. s \in Seq(S)
  BY <1>2, <1>3
<1>5. QED
  BY <1>3, <1>4

(* The document at hand, and those after it. *)
LEMMA AtHand ==
    ASSUME stale \in Seq(Doc), stale # <<>>
    PROVE  /\ Head(stale) \in Doc
           /\ 1 \in DOMAIN stale /\ Head(stale) = stale[1]
           /\ Tail(stale) \in Seq(Doc)
           /\ \A i \in DOMAIN Tail(stale) :
                 i + 1 \in DOMAIN stale /\ Tail(stale)[i] = stale[i + 1]
<1>1. Len(stale) \in Nat \ {0} /\ DOMAIN stale = 1 .. Len(stale)
  BY EmptySeq, LenProperties
<1>2. Head(stale) = stale[1] /\ stale[1] \in Doc
  BY <1>1
<1>3. Tail(stale) \in Seq(Doc) /\ Len(Tail(stale)) = Len(stale) - 1
      /\ \A i \in 1 .. Len(Tail(stale)) : Tail(stale)[i] = stale[i + 1]
  BY HeadTailProperties
<1>4. DOMAIN Tail(stale) = 1 .. Len(stale) - 1
  BY <1>3
<1>5. QED
  BY <1>1, <1>2, <1>3, <1>4

LEMMA GcNextTypeOK ==
    ASSUME GcTypeOK, [GcNext]_gcVars
    PROVE  GcTypeOK'
<1>0. TypeOK /\ WorkerTypeOK
  BY DEF GcTypeOK, TypeOK
<1>1. UNCHANGED vars => TypeOK'
  BY <1>0, NextTypeOK
<1>2. CASE PipelineStep
  <2>1. TypeOK'
    BY <1>0, <1>2, NextTypeOK DEF PipelineStep
  <2>2. QED
    BY <1>2, <2>1 DEF PipelineStep, GcTypeOK, collector
<1>3. CASE \E d \in Doc : Age(d)
  BY <1>1, <1>3 DEF Age, GcTypeOK, collector
<1>4. CASE GcStart
  <2>1. stale' \in Seq(Doc)
    BY <1>4, QueryResult DEF GcStart
  <2>2. QED
    BY <1>1, <1>4, <2>1 DEF GcStart, GcTypeOK, GcPc
<1>5. CASE GcPurge
  <2>1. points' \in [Doc -> SUBSET Nat]
    BY <1>0, <1>5 DEF GcPurge, TypeOK
  <2>2. TypeOK'
    BY <1>0, <1>5, <2>1 DEF GcPurge, TypeOK, WorkerTypeOK, broker, api, worker,
       delivery, lease, work
  <2>3. QED
    BY <1>5, <2>2 DEF GcPurge, GcTypeOK, GcPc
<1>6. CASE GcUnlink
  <2>1. TypeOK'
    BY <1>0, <1>6 DEF GcUnlink, TypeOK, WorkerTypeOK, broker, api, worker,
       delivery, lease, work
  <2>2. QED
    BY <1>6, <2>1 DEF GcUnlink, GcTypeOK, GcPc
<1>7. CASE GcDeleteRows
  <2>1. status' \in [Doc -> Status] /\ chunks' \in [Doc -> SUBSET Nat] /\ old' \subseteq Doc
    BY <1>0, <1>7 DEF GcDeleteRows, TypeOK, GcTypeOK, Status
  <2>2. faults' \in [FaultKind -> Nat]
    BY <1>0, <1>7, FaultType DEF GcDeleteRows, TypeOK, FaultKind
  <2>3. TypeOK'
    BY <1>0, <1>7, <2>1, <2>2 DEF GcDeleteRows, TypeOK, WorkerTypeOK, broker, api,
       worker, delivery, lease, work
  <2>4. Tail(stale) \in Seq(Doc)
    BY <1>7, AtHand DEF GcDeleteRows, GcTypeOK
  <2>5. QED
    BY <1>7, <2>1, <2>3, <2>4 DEF GcDeleteRows, GcTypeOK, GcPc
<1>8. CASE GcVanished \/ GcReadPaths \/ GcReadDocs \/ GcDeletePointsFails
  <2>1. <<>> \in Seq(Doc) /\ {} \in SUBSET (Doc \X Nat)
    OBVIOUS
  <2>2. CASE GcVanished
    BY <1>1, <2>1, <2>2 DEF GcVanished, GcTypeOK, GcPc
  <2>3. CASE GcReadPaths
    BY <1>1, <2>3 DEF GcReadPaths, GcTypeOK, GcPc
  <2>4. CASE GcReadDocs
    BY <1>1, <2>4 DEF GcReadDocs, GcTypeOK, GcPc
  <2>5. CASE GcDeletePointsFails
    BY <1>1, <2>1, <2>5 DEF GcDeletePointsFails, GcTypeOK, GcPc
  <2>6. QED
    BY <1>8, <2>2, <2>3, <2>4, <2>5
<1>9. CASE GcReadChunks
  <2>1. UNION {chunks[d] : d \in Doc} \subseteq Nat
    BY <1>0 DEF TypeOK
  <2>2. QED
    BY <1>1, <1>9, <2>1 DEF GcReadChunks, GcTypeOK, GcPc
<1>10. CASE GcScan
  <2>1. \A p \in UNION {{d} \X points[d] : d \in Doc} : p \in Doc \X Nat
    BY <1>0 DEF TypeOK
  <2>2. doomed' \subseteq Doc \X Nat
    BY <1>10, <2>1 DEF GcScan, GcTypeOK
  <2>3. QED
    BY <1>1, <1>10, <2>2 DEF GcScan, GcTypeOK, GcPc
<1>11. CASE GcDeleteFiles
  <2>1. TypeOK'
    BY <1>0, <1>11 DEF GcDeleteFiles, TypeOK, WorkerTypeOK, broker, api, worker,
       delivery, lease, work
  <2>2. QED
    BY <1>11, <2>1 DEF GcDeleteFiles, GcTypeOK, GcPc
<1>12. CASE GcDeletePoints
  <2>1. points' \in [Doc -> SUBSET Nat]
    BY <1>0, <1>12 DEF GcDeletePoints, TypeOK
  <2>2. TypeOK'
    BY <1>0, <1>12, <2>1 DEF GcDeletePoints, TypeOK, WorkerTypeOK, broker, api, worker,
       delivery, lease, work
  <2>3. QED
    BY <1>12, <2>2 DEF GcDeletePoints, GcTypeOK, GcPc
<1>13. CASE GcCrash
  <2>1. faults' \in [FaultKind -> Nat]
    BY <1>0, <1>13, FaultType DEF GcCrash, FaultKind
  <2>2. TypeOK'
    BY <1>0, <1>13, <2>1 DEF GcCrash, TypeOK, WorkerTypeOK, stores, broker, api, worker,
       delivery, lease, work
  <2>3. QED
    BY <1>13, <2>2 DEF GcCrash, GcTypeOK, GcPc
<1>14. CASE UNCHANGED gcVars
  BY <1>1, <1>14 DEF gcVars, collector, GcTypeOK
<1>15. QED
  BY <1>2, <1>3, <1>4, <1>5, <1>6, <1>7, <1>8, <1>9, <1>10, <1>11, <1>12, <1>13, <1>14
     DEF GcNext, GcStep

LEMMA GcInitTypeOK == GcInit => GcTypeOK
BY InitTypeOK DEF GcInit, GcTypeOK, GcPc

(* The type invariant of the collector and the pipeline together, whether or
   not anything is stopped while it runs.                                   *)
THEOREM TypesOfGc == GcSpec => []GcTypeOK
BY GcInitTypeOK, GcNextTypeOK, PTL DEF GcSpec

-----------------------------------------------------------------------------
(* What the collector leaves alone. *)

CollectorStep == (\E d \in Doc : Age(d)) \/ GcStart \/ GcStep \/ GcCrash

LEMMA CollectorLeaves ==
    ASSUME CollectorStep
    PROVE  UNCHANGED <<nextId, lock, broker, api, worker>>
<1>1. CASE UNCHANGED vars
  BY <1>1 DEF vars, stores
<1>2. CASE (\E d \in Doc : Age(d)) \/ GcStart \/ GcVanished \/ GcReadPaths \/ GcReadDocs
           \/ GcReadChunks \/ GcScan \/ GcDeletePointsFails
  BY <1>1, <1>2 DEF Age, GcStart, GcVanished, GcReadPaths, GcReadDocs, GcReadChunks,
     GcScan, GcDeletePointsFails
<1>3. CASE GcPurge \/ GcUnlink \/ GcDeleteRows \/ GcDeleteFiles \/ GcDeletePoints \/ GcCrash
  BY <1>3 DEF GcPurge, GcUnlink, GcDeleteRows, GcDeleteFiles, GcDeletePoints, GcCrash, stores
<1>4. QED
  BY <1>2, <1>3 DEF CollectorStep, GcStep

LEMMA GcCases ==
    ASSUME [GcNext]_gcVars
    PROVE  PipelineStep \/ CollectorStep \/ UNCHANGED gcVars
BY DEF GcNext, CollectorStep

(* The collector takes no lock and can do no harm to one. *)
LEMMA GcKey ==
    ASSUME NoLockLoss, KeyInv, GcTypeOK', [GcNext]_gcVars
    PROVE  KeyInv'
<1>1. CASE [Next]_vars
  BY <1>1, NextTypeOK, NextOwnsKey DEF KeyInv
<1>2. CASE CollectorStep
  <2>1. UNCHANGED <<lock, pc, job, locked, lost>>
    BY <1>2, CollectorLeaves DEF worker, delivery, lease
  <2>2. OwnsKey'
    BY <2>1 DEF KeyInv, OwnsKey, Owns, Working
  <2>3. QED
    BY <2>2 DEF KeyInv, GcTypeOK
<1>3. QED
  BY <1>1, <1>2, GcCases DEF PipelineStep, gcVars

(* The lock of a document excludes also beside the collector, which takes no
   part in it and need not have the pipeline stopped for that.             *)
THEOREM LockIsExclusiveBesideGc ==
    ASSUME NoLockLoss
    PROVE  GcSpec => []MutualExclusion
<1>1. GcInit => GcTypeOK /\ KeyInv
  BY GcInitTypeOK, InitTypeOK, InitOwnsKey DEF GcInit, KeyInv
<1>2. (GcTypeOK /\ KeyInv) /\ [GcNext]_gcVars => (GcTypeOK /\ KeyInv)'
  BY GcNextTypeOK, GcKey
<1>3. KeyInv => MutualExclusion
  BY OneOwner DEF MutualExclusion
<1>4. QED
  BY <1>1, <1>2, <1>3, PTL DEF GcSpec

(* The row that a transaction of the collector deletes takes its chunks along,
   even that of a document whose delete request has begun.                 *)
LEMMA GcRows ==
    ASSUME GcTypeOK, RowsConsistent, [GcNext]_gcVars
    PROVE  RowsConsistent'
<1>0. TypeOK
  BY DEF GcTypeOK
<1>1. CASE [Next]_vars
  BY <1>0, <1>1, NextRows
<1>2. CASE CollectorStep
  <2>1. UNCHANGED <<upload, del, purged>>
    BY <1>2, CollectorLeaves DEF api
  <2>2. CASE UNCHANGED <<status, chunks>>
    BY <2>1, <2>2, RowFrame DEF RowsConsistent
  <2>3. CASE /\ RowExists(Head(stale)) /\ Head(stale) \in Doc
             /\ status' = [status EXCEPT ![Head(stale)] = "deleted"]
             /\ chunks' = [chunks EXCEPT ![Head(stale)] = {}]
    <3>1. ASSUME NEW d \in Doc PROVE RowConsistent(d)'
      BY <1>0, <2>1, <2>3 DEF RowsConsistent, RowConsistent, RowExists, TypeOK
    <3>2. QED
      BY <3>1 DEF RowsConsistent
  <2>4. CASE GcDeleteRows
    <3>1. Head(stale) \in Doc
      BY <2>4, AtHand DEF GcDeleteRows, GcTypeOK
    <3>2. QED
      BY <2>2, <2>3, <2>4, <3>1 DEF GcDeleteRows
  <2>5. QED
    BY <1>2, <2>2, <2>4 DEF CollectorStep, GcStep, Age, GcStart, GcPurge, GcUnlink,
       GcVanished, GcReadPaths, GcDeleteFiles, GcReadDocs, GcReadChunks, GcScan,
       GcDeletePoints, GcDeletePointsFails, GcCrash, vars, stores
<1>3. QED
  BY <1>1, <1>2, GcCases DEF PipelineStep, gcVars

-----------------------------------------------------------------------------
(* A run beside which nothing is uploaded or indexed. *)

LEMMA GcStopped ==
    ASSUME Stopped, [GcNext]_gcVars
    PROVE  Stopped'
<1>1. CASE UNCHANGED <<upload, worker>> /\ (gc' = "idle" \/ gc # "idle" \/ AtRest)
  BY <1>1 DEF Stopped, AtRest, worker
<1>2. CASE PipelineStep
  <2>1. gc' = gc
    BY <1>2 DEF PipelineStep, collector
  <2>2. CASE Quiet /\ gc # "idle"
    BY <1>1, <1>2, <2>2 DEF PipelineStep
  <2>3. CASE ~Quiet \/ gc = "idle"
    BY <2>1, <2>3 DEF Stopped, AtRest
  <2>4. QED
    BY <2>2, <2>3
<1>3. CASE CollectorStep
  <2>1. UNCHANGED <<upload, worker>>
    BY <1>3, CollectorLeaves DEF api
  <2>2. gc' = "idle" \/ gc # "idle" \/ AtRest
    BY <1>3 DEF CollectorStep, GcStep, Age, GcStart, GcPurge, GcUnlink, GcDeleteRows,
       GcVanished, GcReadPaths, GcDeleteFiles, GcReadDocs, GcReadChunks, GcScan,
       GcDeletePoints, GcDeletePointsFails, GcCrash, collector
  <2>3. QED
    BY <1>1, <2>1, <2>2
<1>4. CASE UNCHANGED gcVars
  BY <1>1, <1>4 DEF gcVars, vars, collector, api
<1>5. QED
  BY <1>2, <1>3, <1>4, GcCases

(* What remains of a document only shrinks: a row goes with its chunks, or
   stays as it is.                                                         *)
Shrinks(d) ==
    /\ RowExists(d)' => RowExists(d) /\ status'[d] = status[d] /\ chunks'[d] = chunks[d]
    /\ chunks'[d] \subseteq chunks[d]
    /\ points'[d] \subseteq points[d]
    /\ file'[d] => file[d]

(* The pipeline beside a run: only delete requests change a store. *)
LEMMA QuietStep ==
    ASSUME Quiet, TypeOK, RowsConsistent, Stopped, gc # "idle", PipelineStep, NEW d \in Doc
    PROVE  Shrinks(d)
<1>0. /\ UNCHANGED <<upload, worker>>
      /\ \A e \in Exec : pc[e] = "idle"
      /\ \A c \in Doc : upload[c] \notin {"saved", "inserted", "enqueueFailed"}
  BY DEF PipelineStep, Stopped, AtRest
<1>1. CASE UNCHANGED stores
  BY <1>1 DEF Shrinks, stores, RowExists
<1>2. ASSUME NEW c \in Doc, UploadStep(c) \/ UploadCrash(c) PROVE FALSE
  <2>1. SaveFile(c)
    BY <1>0, <1>2 DEF UploadStep, UploadCrash, InsertRow, Enqueue, MarkEnqueueFailed
  <2>2. upload[c] = "none" /\ upload'[c] = "saved"
    BY <2>1 DEF SaveFile, TypeOK
  <2>3. QED
    BY <1>0, <2>2
<1>3. ASSUME NEW c \in Doc, DeleteBegin(c) \/ DeleteStep(c) \/ DeleteCrash(c)
      PROVE  Shrinks(d)
  <2>1. CASE DeleteBegin(c) \/ DeleteCrash(c)
    BY <1>1, <2>1 DEF DeleteBegin, DeleteCrash
  <2>2. CASE DeleteVectors(c)
    BY <2>2 DEF DeleteVectors, Shrinks, RowExists, TypeOK
  <2>3. CASE DeleteCommit(c)
    BY <2>3 DEF DeleteCommit, Shrinks, RowExists, TypeOK
  <2>4. CASE DeleteFiles(c)
    BY <2>4 DEF DeleteFiles, Shrinks, RowExists, TypeOK
  <2>5. QED
    BY <1>3, <2>1, <2>2, <2>3, <2>4 DEF DeleteStep
<1>4. ASSUME NEW c \in Doc, LockExpires(c) \/ Stall(c) PROVE UNCHANGED stores
  BY <1>4 DEF LockExpires, Stall
<1>5. ASSUME NEW e \in Exec, ExecStep(e) PROVE FALSE
  BY <1>0, <1>5 DEF ExecStep, Acquire, AcquireError, LockBusy, Load, Convert,
     ReplaceChunks, ReadChunks, UpsertBatch, ListPoints, DeleteStale,
     CommitEmbeddings, Finish, Release, AttemptFailed, RecordDead, PublishRetry, Ack
<1>6. ASSUME NEW e \in Exec,
             \/ \E c \in Doc, r \in 0..MaxRetries : Take(e, c, r)
             \/ Heartbeat(e) \/ WorkerLost(e) \/ Redeliver(e)
      PROVE  UNCHANGED stores
  BY <1>6 DEF Take, Heartbeat, WorkerLost, Redeliver
<1>7. Next
  BY DEF PipelineStep
<1>8. QED
  BY <1>1, <1>2, <1>3, <1>4, <1>5, <1>6, <1>7 DEF Next

-----------------------------------------------------------------------------
(* The documents that a run deletes. *)

RunInv == GcTypeOK /\ RowsConsistent /\ Stopped

LEMMA GcRunInv ==
    ASSUME RunInv, [GcNext]_gcVars
    PROVE  RunInv'
BY GcNextTypeOK, GcRows, GcStopped DEF RunInv

LEMMA GcInitRun == GcInit => RunInv
BY GcInitTypeOK, InitRows DEF GcInit, RunInv, Stopped

LEMMA GcSelected ==
    ASSUME Quiet, RunInv, Selected, [GcNext]_gcVars
    PROVE  Selected'
<1>0. TypeOK /\ stale \in Seq(Doc)
  BY DEF RunInv, GcTypeOK
<1>1. CASE /\ UNCHANGED <<status, old, stale>>
           /\ gc \in {"stale", "unlink", "rows", "next"}
  BY <1>1 DEF Selected, Expired, RowExists
<1>2. CASE gc' \notin {"stale", "unlink", "rows", "next"}
  BY <1>2 DEF Selected
<1>3. CASE PipelineStep /\ gc \in {"stale", "unlink", "rows", "next"}
  <2>1. UNCHANGED <<gc, stale>> /\ old' = {d \in old : status'[d] = status[d]}
    BY <1>3 DEF PipelineStep, collector
  <2>2. ASSUME NEW i \in DOMAIN stale' PROVE (Expired(stale[i]) \/ ~RowExists(stale[i]))'
    <3>1. stale[i] \in Doc /\ stale'[i] = stale[i]
      BY <1>0, <2>1
    <3>2. Expired(stale[i]) \/ ~RowExists(stale[i])
      BY <1>3, <2>1 DEF Selected
    <3>3. RowExists(stale[i])' =>
             RowExists(stale[i]) /\ status'[stale[i]] = status[stale[i]]
      BY <1>0, <1>3, <3>1, QuietStep DEF RunInv, Shrinks
    <3>4. QED
      BY <2>1, <3>1, <3>2, <3>3 DEF Expired, RowExists
  <2>3. QED
    BY <2>2 DEF Selected
<1>4. CASE GcStart
  <2>1. \A i \in DOMAIN stale' : stale'[i] \in {d \in Doc : Expired(d)}
    BY <1>4, QueryResult DEF GcStart
  <2>2. UNCHANGED <<status, old>>
    BY <1>4 DEF GcStart, vars, stores
  <2>3. QED
    BY <2>1, <2>2 DEF Selected, Expired
<1>5. CASE GcDeleteRows
  <2>1. Head(stale) \in Doc
    BY <1>5, AtHand DEF GcDeleteRows, RunInv, GcTypeOK
  <2>2. ASSUME NEW i \in DOMAIN stale' PROVE (Expired(stale[i]) \/ ~RowExists(stale[i]))'
    <3>1. i + 1 \in DOMAIN stale /\ stale'[i] = stale[i + 1] /\ stale[i + 1] \in Doc
      BY <1>0, <1>5, <2>2, AtHand DEF GcDeleteRows, RunInv, GcTypeOK
    <3>2. Expired(stale[i + 1]) \/ ~RowExists(stale[i + 1])
      BY <1>5, <3>1 DEF Selected, GcDeleteRows
    <3>3. CASE UNCHANGED <<status, old>>
      BY <3>1, <3>2, <3>3 DEF Expired, RowExists
    <3>4. CASE /\ status' = [status EXCEPT ![Head(stale)] = "deleted"]
               /\ old' = old \ {Head(stale)}
      BY <1>0, <2>1, <3>1, <3>2, <3>4 DEF Expired, RowExists, TypeOK
    <3>5. QED
      BY <1>5, <3>3, <3>4 DEF GcDeleteRows
  <2>3. QED
    BY <2>2 DEF Selected
<1>6. CASE \E d \in Doc : Age(d)
  <2>1. UNCHANGED <<status, gc, stale>> /\ old \subseteq old'
    BY <1>6 DEF Age, vars, stores, collector
  <2>2. QED
    BY <2>1 DEF Selected, Expired, RowExists
<1>7. CASE GcPurge \/ GcUnlink
  BY <1>1, <1>7 DEF GcPurge, GcUnlink
<1>8. CASE UNCHANGED gcVars
  BY <1>1, <1>2, <1>8 DEF gcVars, vars, stores, collector
<1>9. PipelineStep => gc' = gc
  BY DEF PipelineStep, collector
<1>10. CASE \/ GcVanished \/ GcReadPaths \/ GcDeleteFiles \/ GcReadDocs \/ GcReadChunks
            \/ GcScan \/ GcDeletePoints \/ GcDeletePointsFails \/ GcCrash
  BY <1>2, <1>10 DEF GcVanished, GcReadPaths, GcDeleteFiles, GcReadDocs, GcReadChunks,
     GcScan, GcDeletePoints, GcDeletePointsFails, GcCrash
<1>11. QED
  BY <1>2, <1>3, <1>4, <1>5, <1>6, <1>7, <1>8, <1>9, <1>10 DEF GcNext, GcStep

(* Only a document that failed or is stuck, and has been so for long, is
   deleted by a run beside which nothing is uploaded or indexed.           *)
THEOREM OnlyExpiredDeleted ==
    ASSUME Quiet
    PROVE  GcSpec => DeletesByRule
<1>1. GcInit => RunInv /\ Selected
  BY GcInitRun DEF GcInit, Selected
<1>2. (RunInv /\ Selected) /\ [GcNext]_gcVars => (RunInv /\ Selected)'
  BY GcRunInv, GcSelected
<1>3. ASSUME RunInv, Selected, [GcNext]_gcVars, NEW d \in Doc,
             gc = "rows", gc' # "rows", status[d] # "deleted", status'[d] = "deleted"
      PROVE  Expired(d)
  <2>1. GcDeleteRows \/ UNCHANGED status
    BY <1>3 DEF GcNext, GcStep, PipelineStep, Age, GcStart, GcPurge, GcUnlink,
       GcVanished, GcReadPaths, GcDeleteFiles, GcReadDocs, GcReadChunks, GcScan,
       GcDeletePoints, GcDeletePointsFails, GcCrash, collector, gcVars, vars, stores
  <2>2. /\ Head(stale) \in Doc /\ 1 \in DOMAIN stale /\ Head(stale) = stale[1]
        /\ TypeOK
    BY <1>3, AtHand DEF RunInv, GcTypeOK
  <2>3. status' = [status EXCEPT ![Head(stale)] = "deleted"] /\ RowExists(Head(stale))
    BY <1>3, <2>1 DEF GcDeleteRows
  <2>4. d = Head(stale)
    BY <1>3, <2>2, <2>3 DEF TypeOK
  <2>5. QED
    BY <1>3, <2>2, <2>3, <2>4 DEF Selected
<1>4. RunInv /\ Selected /\ [GcNext]_gcVars =>
        [\A d \in Doc : gc = "rows" /\ gc' # "rows" /\ status[d] # "deleted"
                        /\ status'[d] = "deleted" => Expired(d)]_gcVars
  BY <1>3
<1>5. QED
  BY <1>1, <1>2, <1>4, PTL DEF GcSpec, DeletesByRule

-----------------------------------------------------------------------------
(* The points that a run deletes. *)

(* The collector shrinks what is there, too. *)
LEMMA CollectorShrinks ==
    ASSUME GcTypeOK, CollectorStep \/ UNCHANGED gcVars, NEW d \in Doc
    PROVE  Shrinks(d)
<1>0. TypeOK
  BY DEF GcTypeOK
<1>1. CASE UNCHANGED stores
  BY <1>1 DEF Shrinks, stores, RowExists
<1>2. CASE GcPurge
  <2>1. points'[d] = {} \/ points'[d] = points[d]
    BY <1>0, <1>2 DEF GcPurge, TypeOK
  <2>2. QED
    BY <1>2, <2>1 DEF GcPurge, Shrinks, RowExists
<1>3. CASE GcUnlink
  <2>1. file'[d] => file[d]
    BY <1>0, <1>3 DEF GcUnlink, TypeOK
  <2>2. QED
    BY <1>3, <2>1 DEF GcUnlink, Shrinks, RowExists
<1>4. CASE GcDeleteRows
  <2>1. Head(stale) \in Doc
    BY <1>4, AtHand DEF GcDeleteRows, GcTypeOK
  <2>2. QED
    BY <1>0, <1>4, <2>1 DEF GcDeleteRows, Shrinks, RowExists, TypeOK
<1>5. CASE GcDeleteFiles
  BY <1>5 DEF GcDeleteFiles, Shrinks, RowExists
<1>6. CASE GcDeletePoints
  BY <1>6 DEF GcDeletePoints, Shrinks, RowExists
<1>7. CASE \/ (\E c \in Doc : Age(c)) \/ GcStart \/ GcVanished \/ GcReadPaths
           \/ GcReadDocs \/ GcReadChunks \/ GcScan \/ GcDeletePointsFails \/ GcCrash
  BY <1>1, <1>7 DEF Age, GcStart, GcVanished, GcReadPaths, GcReadDocs, GcReadChunks,
     GcScan, GcDeletePointsFails, GcCrash, vars
<1>8. CASE UNCHANGED gcVars
  BY <1>1, <1>8 DEF gcVars, vars
<1>9. QED
  BY <1>2, <1>3, <1>4, <1>5, <1>6, <1>7, <1>8 DEF CollectorStep, GcStep

LEMMA RunShrinks ==
    ASSUME Quiet, RunInv, gc # "idle", [GcNext]_gcVars, NEW d \in Doc
    PROVE  Shrinks(d)
BY QuietStep, CollectorShrinks, GcCases DEF RunInv, GcTypeOK

(* The order of a run, seen from its reading of the points on. *)
LEMMA GcOrder ==
    ASSUME [GcNext]_gcVars
    PROVE  /\ gc' = "chunks" => GcReadDocs \/ (gc = "chunks" /\ UNCHANGED liveDocs)
           /\ gc' = "scan" => \/ GcReadChunks
                              \/ gc = "scan" /\ UNCHANGED <<liveDocs, liveChunks>>
           /\ gc' = "points" => GcScan \/ (gc = "points" /\ UNCHANGED doomed)
<1>1. CASE UNCHANGED collector
  BY <1>1 DEF collector
<1>2. CASE PipelineStep \/ (\E d \in Doc : Age(d)) \/ UNCHANGED gcVars
  BY <1>1, <1>2 DEF PipelineStep, Age, gcVars
<1>3. CASE GcStart \/ GcPurge \/ GcUnlink \/ GcDeleteRows \/ GcVanished
  BY <1>3 DEF GcStart, GcPurge, GcUnlink, GcDeleteRows, GcVanished
<1>4. CASE \/ GcReadPaths \/ GcDeleteFiles \/ GcDeletePoints \/ GcDeletePointsFails
           \/ GcCrash
  BY <1>4 DEF GcReadPaths, GcDeleteFiles, GcDeletePoints, GcDeletePointsFails, GcCrash
<1>5. CASE GcReadDocs
  <2>1. gc' = "chunks"
    BY <1>5 DEF GcReadDocs
  <2>2. QED
    BY <1>5, <2>1
<1>6. CASE GcReadChunks
  <2>1. gc' = "scan"
    BY <1>6 DEF GcReadChunks
  <2>2. QED
    BY <1>6, <2>1
<1>7. CASE GcScan
  BY <1>7 DEF GcScan
<1>8. QED
  BY <1>2, <1>3, <1>4, <1>5, <1>6, <1>7 DEF GcNext, GcStep

LEMMA GcLive ==
    ASSUME Quiet, RunInv, LiveRead, [GcNext]_gcVars
    PROVE  LiveRead'
<1>0. RowsConsistent
  BY DEF RunInv
<1>1. ASSUME gc' \in {"chunks", "scan"}, NEW d \in Doc, RowExists(d)'
      PROVE  d \in liveDocs'
  <2>1. CASE GcReadDocs
    BY <1>1, <2>1 DEF GcReadDocs, RowExists, vars, stores
  <2>2. CASE GcReadChunks
    BY <1>1, <2>2 DEF GcReadChunks, RowExists, vars, stores, LiveRead
  <2>3. CASE gc \in {"chunks", "scan"} /\ UNCHANGED liveDocs
    BY <1>1, <2>3, RunShrinks DEF Shrinks, LiveRead
  <2>4. QED
    BY <1>1, <2>1, <2>2, <2>3, GcOrder
<1>2. ASSUME gc' = "scan", NEW d \in Doc PROVE chunks'[d] \subseteq liveChunks'
  <2>1. CASE GcReadChunks
    BY <2>1 DEF GcReadChunks, vars, stores
  <2>2. CASE gc = "scan" /\ UNCHANGED liveChunks
    BY <2>2, RunShrinks DEF Shrinks, LiveRead
  <2>3. QED
    BY <1>2, <2>1, <2>2, GcOrder
<1>3. ASSUME gc' = "points", NEW d \in Doc, NEW i \in chunks'[d]
      PROVE  <<d, i>> \notin doomed'
  <2>1. CASE GcScan
    <3>1. gc = "scan" /\ i \in chunks[d]
      BY <1>3, <2>1 DEF GcScan, vars, stores
    <3>2. RowExists(d)
      BY <1>0, <3>1 DEF RowsConsistent, RowConsistent
    <3>3. d \in liveDocs /\ i \in liveChunks
      BY <3>1, <3>2 DEF LiveRead
    <3>4. QED
      BY <1>3, <2>1, <3>1, <3>3 DEF GcScan
  <2>2. CASE gc = "points" /\ UNCHANGED doomed
    BY <1>3, <2>2, RunShrinks DEF Shrinks, LiveRead
  <2>3. QED
    BY <1>3, <2>1, <2>2, GcOrder
<1>4. QED
  BY <1>1, <1>2, <1>3 DEF LiveRead

LEMMA LiveInvariant ==
    ASSUME Quiet
    PROVE  GcSpec => [](RunInv /\ LiveRead)
<1>1. GcInit => RunInv /\ LiveRead
  BY GcInitRun DEF GcInit, LiveRead
<1>2. (RunInv /\ LiveRead) /\ [GcNext]_gcVars => (RunInv /\ LiveRead)'
  BY GcRunInv, GcLive
<1>3. QED
  BY <1>1, <1>2, PTL DEF GcSpec

(* The deletion of orphan points takes no point whose chunk row exists, when
   nothing is uploaded or indexed between the queries and the deletion.    *)
THEOREM OrphanScanIsSafe ==
    ASSUME Quiet
    PROVE  GcSpec => OrphanScanSparesLive
<1>1. ASSUME RunInv, LiveRead, GcDeletePoints, NEW d \in Doc
      PROVE  (points[d] \ points'[d]) \cap chunks[d] = {}
  <2>1. \A i \in chunks[d] : <<d, i>> \notin doomed
    BY <1>1 DEF GcDeletePoints, LiveRead
  <2>2. points'[d] = {i \in points[d] : <<d, i>> \notin doomed}
    BY <1>1 DEF GcDeletePoints
  <2>3. QED
    BY <2>1, <2>2
<1>2. RunInv /\ LiveRead /\ [GcNext]_gcVars =>
        [GcDeletePoints =>
           \A d \in Doc : (points[d] \ points'[d]) \cap chunks[d] = {}]_gcVars
  BY <1>1
<1>3. QED
  BY <1>2, LiveInvariant, PTL DEF GcSpec, OrphanScanSparesLive

-----------------------------------------------------------------------------
(* Chunk ids: no document comes by an id of another. *)

IdleIsEmpty == \A e \in Exec : pc[e] = "idle" => ids[e] = {} /\ todo[e] = {}

(* What a step may add to what is known under document d. *)
Gains(d, new) ==
    /\ points'[d] \subseteq IdsOf(d) \cup new
    /\ chunks'[d] \subseteq IdsOf(d) \cup new
    /\ \A e \in Exec : job'[e] = d => ids'[e] \cup todo'[e] \subseteq IdsOf(d) \cup new

LEMMA GainsIds ==
    ASSUME NEW d \in Doc, NEW new, Gains(d, new)
    PROVE  IdsOf(d)' \subseteq IdsOf(d) \cup new
<1>1. ASSUME NEW i \in IdsOf(d)' PROVE i \in IdsOf(d) \cup new
  <2>1. i \in points'[d] \/ i \in chunks'[d]
        \/ \E e \in Exec : job'[e] = d /\ i \in ids'[e] \cup todo'[e]
    BY <1>1 DEF IdsOf
  <2>2. QED
    BY <2>1 DEF Gains
<1>2. QED
  BY <1>1

LEMMA InIds ==
    ASSUME NEW d \in Doc
    PROVE  /\ points[d] \subseteq IdsOf(d)
           /\ chunks[d] \subseteq IdsOf(d)
           /\ \A e \in Exec : job[e] = d =>
                 ids[e] \subseteq IdsOf(d) /\ todo[e] \subseteq IdsOf(d)
BY DEF IdsOf

(* A step that takes no id and adds none to what anyone knows. *)
LEMMA NoGain ==
    ASSUME NEW d \in Doc, points'[d] \subseteq points[d], chunks'[d] \subseteq chunks[d],
           \A e \in Exec : \/ job'[e] # d
                           \/ ids'[e] = {} /\ todo'[e] = {}
                           \/ UNCHANGED <<job[e], ids[e], todo[e]>>
    PROVE  Gains(d, {})
BY InIds DEF Gains

(* The steps of the pipeline, the insert of chunk rows aside. *)
LEMMA StepGains ==
    ASSUME TypeOK, IdleIsEmpty, [Next]_vars, NEW d \in Doc,
           ~\E e \in Exec : ReplaceChunks(e)
    PROVE  Gains(d, {})
<1>0. WorkerTypeOK
  BY DEF TypeOK
<1>1. CASE UNCHANGED <<points, chunks, job, ids, todo>>
  BY <1>1, NoGain
<1>2. ASSUME NEW c \in Doc, DeleteVectors(c) \/ DeleteCommit(c) PROVE Gains(d, {})
  <2>1. points'[d] \subseteq points[d] /\ chunks'[d] \subseteq chunks[d]
    BY <1>2 DEF DeleteVectors, DeleteCommit, TypeOK
  <2>2. UNCHANGED <<job, ids, todo>>
    BY <1>2 DEF DeleteVectors, DeleteCommit, worker, delivery, work
  <2>3. QED
    BY <2>1, <2>2, NoGain
<1>3. ASSUME NEW e \in Exec, BecomeIdle(e), UNCHANGED stores PROVE Gains(d, {})
  <2>1. ASSUME NEW f \in Exec
        PROVE  job'[f] # d \/ UNCHANGED <<job[f], ids[f], todo[f]>>
    BY <1>0, <1>3 DEF BecomeIdle, WorkerTypeOK
  <2>2. QED
    BY <1>3, <2>1, NoGain DEF stores
<1>4. ASSUME NEW e \in Exec, NEW c \in Doc, NEW r \in 0..MaxRetries, Take(e, c, r)
      PROVE  Gains(d, {})
  <2>1. UNCHANGED <<points, chunks, ids, todo>> /\ ids[e] = {} /\ todo[e] = {}
    BY <1>4 DEF Take, stores, work, IdleIsEmpty
  <2>2. ASSUME NEW f \in Exec, f # e PROVE UNCHANGED job[f]
    BY <1>0, <1>4, <2>2 DEF Take, WorkerTypeOK
  <2>3. QED
    BY <2>1, <2>2, NoGain
<1>5. ASSUME NEW e \in Exec, Release(e) PROVE Gains(d, {})
  <2>1. UNCHANGED <<points, chunks, job>>
    BY <1>5 DEF Release, stores, delivery
  <2>2. ASSUME NEW f \in Exec
        PROVE  (ids'[f] = {} /\ todo'[f] = {}) \/ UNCHANGED <<ids[f], todo[f]>>
    BY <1>0, <1>5 DEF Release, WorkerTypeOK
  <2>3. QED
    BY <2>1, <2>2, NoGain
<1>6. ASSUME NEW e \in Exec,
             ReadChunks(e) \/ UpsertBatch(e) \/ ListPoints(e) \/ DeleteStale(e)
      PROVE  Gains(d, {})
  <2>1. job[e] \in Doc
    BY <1>6, ExecDoc DEF ReadChunks, UpsertBatch, ListPoints, DeleteStale
  <2>2. UNCHANGED <<chunks, job>>
    BY <1>6 DEF ReadChunks, UpsertBatch, ListPoints, DeleteStale, stores, delivery
  <2>3. ASSUME NEW f \in Exec, f # e PROVE UNCHANGED <<ids[f], todo[f]>>
    BY <1>0, <1>6, <2>3 DEF ReadChunks, UpsertBatch, ListPoints, DeleteStale,
       WorkerTypeOK, work
  <2>4. CASE d # job[e]
    <3>1. points'[d] = points[d]
      BY <1>6, <2>1, <2>4 DEF ReadChunks, UpsertBatch, ListPoints, DeleteStale,
         TypeOK, stores
    <3>2. QED
      BY <2>2, <2>3, <2>4, <3>1, NoGain
  <2>5. CASE d = job[e]
    <3>1. points'[d] \subseteq points[d] \cup todo[e]
      BY <1>6, <2>1, <2>5 DEF ReadChunks, UpsertBatch, ListPoints, DeleteStale,
         TypeOK, stores
    <3>2. ids'[e] = ids[e] \/ ids'[e] = chunks[d]
      BY <1>0, <1>6, <2>5 DEF ReadChunks, UpsertBatch, ListPoints, DeleteStale,
         WorkerTypeOK, work
    <3>3. todo'[e] \subseteq todo[e] \cup chunks[d] \cup points[d]
      BY <1>0, <1>6, <2>5 DEF ReadChunks, UpsertBatch, ListPoints, DeleteStale,
         WorkerTypeOK, work
    <3>4. QED
      BY <2>2, <2>3, <2>5, <3>1, <3>2, <3>3, InIds DEF Gains
  <2>6. QED
    BY <2>4, <2>5
<1>7. ASSUME NEW c \in Doc,
             \/ UploadStep(c) \/ UploadCrash(c) \/ DeleteBegin(c) \/ DeleteFiles(c)
             \/ DeleteCrash(c) \/ LockExpires(c) \/ Stall(c)
      PROVE  UNCHANGED <<points, chunks, job, ids, todo>>
  BY <1>7 DEF UploadStep, SaveFile, InsertRow, Enqueue, MarkEnqueueFailed, UploadCrash,
     DeleteBegin, DeleteFiles, DeleteCrash, LockExpires, Stall, stores, worker,
     delivery, work
<1>8. ASSUME NEW e \in Exec,
             \/ Acquire(e) \/ AcquireError(e) \/ LockBusy(e) \/ Load(e) \/ Convert(e)
             \/ CommitEmbeddings(e) \/ Finish(e) \/ AttemptFailed(e) \/ RecordDead(e)
             \/ PublishRetry(e) \/ Heartbeat(e) \/ Redeliver(e)
      PROVE  UNCHANGED <<points, chunks, job, ids, todo>>
  BY <1>8 DEF Acquire, AcquireError, LockBusy, Load, Convert, CommitEmbeddings, Finish,
     AttemptFailed, RecordDead, PublishRetry, Heartbeat, Redeliver, stores, delivery, work
<1>9. ASSUME NEW e \in Exec, Ack(e) \/ WorkerLost(e)
      PROVE  BecomeIdle(e) /\ UNCHANGED stores
  BY <1>9 DEF Ack, WorkerLost
<1>10. CASE UNCHANGED vars
  BY <1>1, <1>10 DEF vars, stores, worker, delivery, work
<1>11. CASE Next
  BY <1>1, <1>2, <1>3, <1>4, <1>5, <1>6, <1>7, <1>8, <1>9, <1>11
     DEF Next, DeleteStep, ExecStep
<1>12. QED
  BY <1>10, <1>11

(* New chunk rows have ids of their own. *)
LEMMA ReplaceGains ==
    ASSUME TypeOK, NEW e \in Exec, ReplaceChunks(e)
    PROVE  /\ job[e] \in Doc /\ nextId' >= nextId
           /\ Gains(job[e], nextId .. nextId' - 1)
           /\ \A d \in Doc \ {job[e]} : Gains(d, {})
<1>0. WorkerTypeOK /\ nextId \in Nat
  BY DEF TypeOK
<1>1. job[e] \in Doc
  BY ExecDoc DEF ReplaceChunks
<1>2. UNCHANGED <<points, todo, job>>
  BY DEF ReplaceChunks, delivery
<1>3. CASE UNCHANGED <<chunks, nextId, ids>>
  <2>1. ASSUME NEW d \in Doc PROVE Gains(d, {})
    BY <1>2, <1>3, NoGain
  <2>2. Gains(job[e], nextId .. nextId' - 1)
    BY <1>1, <2>1 DEF Gains
  <2>3. QED
    BY <1>0, <1>1, <1>3, <2>1, <2>2
<1>4. ASSUME NEW n \in 1..MaxBatches,
             ids' = [ids EXCEPT ![e] = nextId .. nextId + n - 1],
             nextId' = nextId + n, chunks' = [chunks EXCEPT ![job[e]] = ids'[e]]
      PROVE  /\ nextId' >= nextId
             /\ Gains(job[e], nextId .. nextId' - 1)
             /\ \A d \in Doc \ {job[e]} : Gains(d, {})
  <2>1. ids'[e] = nextId .. nextId' - 1 /\ chunks'[job[e]] = ids'[e]
    BY <1>0, <1>1, <1>4 DEF WorkerTypeOK, TypeOK
  <2>2. ASSUME NEW f \in Exec, f # e PROVE UNCHANGED ids[f]
    BY <1>0, <1>4, <2>2 DEF WorkerTypeOK
  <2>3. ASSUME NEW d \in Doc, d # job[e] PROVE Gains(d, {})
    <3>1. chunks'[d] = chunks[d]
      BY <1>4, <2>3 DEF TypeOK
    <3>2. QED
      BY <1>2, <2>2, <2>3, <3>1, NoGain
  <2>4. Gains(job[e], nextId .. nextId' - 1)
    BY <1>1, <1>2, <2>1, <2>2, InIds DEF Gains
  <2>5. QED
    BY <1>0, <1>4, <2>3, <2>4
<1>5. QED
  BY <1>1, <1>3, <1>4 DEF ReplaceChunks

LEMMA NextIdStep ==
    ASSUME [Next]_vars, ~\E e \in Exec : ReplaceChunks(e)
    PROVE  nextId' = nextId
<1>1. CASE UNCHANGED stores
  BY <1>1 DEF stores
<1>2. ASSUME NEW d \in Doc,
             \/ UploadStep(d) \/ UploadCrash(d) \/ DeleteBegin(d) \/ DeleteStep(d)
             \/ DeleteCrash(d) \/ LockExpires(d) \/ Stall(d)
      PROVE  nextId' = nextId
  BY <1>2 DEF UploadStep, SaveFile, InsertRow, Enqueue, MarkEnqueueFailed, UploadCrash,
     DeleteBegin, DeleteStep, DeleteVectors, DeleteCommit, DeleteFiles, DeleteCrash,
     LockExpires, Stall, stores
<1>3. ASSUME NEW e \in Exec,
             \/ \E d \in Doc, r \in 0..MaxRetries : Take(e, d, r)
             \/ Heartbeat(e) \/ WorkerLost(e) \/ Redeliver(e)
      PROVE  nextId' = nextId
  BY <1>3 DEF Take, Heartbeat, WorkerLost, Redeliver, stores
<1>4. ASSUME NEW e \in Exec, ExecStep(e), ~ReplaceChunks(e) PROVE nextId' = nextId
  BY <1>4 DEF ExecStep, Acquire, AcquireError, LockBusy, Load, Convert, ReadChunks,
     UpsertBatch, ListPoints, DeleteStale, CommitEmbeddings, Finish, Release,
     AttemptFailed, RecordDead, PublishRetry, Ack, stores
<1>5. QED
  BY <1>1, <1>2, <1>3, <1>4 DEF Next, vars

(* A process that has no delivery remembers no id. *)
LEMMA IdleStep ==
    ASSUME TypeOK, IdleIsEmpty, [Next]_vars
    PROVE  IdleIsEmpty'
<1>0. WorkerTypeOK
  BY DEF TypeOK
<1>1. CASE UNCHANGED worker
  BY <1>1 DEF IdleIsEmpty, worker, work
<1>2. ASSUME NEW e \in Exec,
             \A f \in Exec \ {e} : UNCHANGED <<pc[f], ids[f], todo[f]>>,
             pc'[e] = "idle" => ids'[e] = {} /\ todo'[e] = {}
      PROVE  IdleIsEmpty'
  BY <1>2 DEF IdleIsEmpty
<1>3. ASSUME NEW d \in Doc,
             \/ UploadStep(d) \/ UploadCrash(d) \/ DeleteBegin(d) \/ DeleteStep(d)
             \/ DeleteCrash(d) \/ LockExpires(d) \/ Stall(d)
      PROVE  UNCHANGED worker
  BY <1>3 DEF UploadStep, SaveFile, InsertRow, Enqueue, MarkEnqueueFailed, UploadCrash,
     DeleteBegin, DeleteStep, DeleteVectors, DeleteCommit, DeleteFiles, DeleteCrash,
     LockExpires, Stall
<1>4. ASSUME NEW e \in Exec, BecomeIdle(e) PROVE IdleIsEmpty'
  BY <1>0, <1>2, <1>4 DEF BecomeIdle, Goto, WorkerTypeOK
<1>5. ASSUME NEW e \in Exec, Heartbeat(e) \/ Redeliver(e) PROVE IdleIsEmpty'
  BY <1>5 DEF Heartbeat, Redeliver, IdleIsEmpty, work
<1>6. ASSUME NEW e \in Exec,
             \/ \E d \in Doc, r \in 0..MaxRetries : Take(e, d, r)
             \/ Acquire(e) \/ AcquireError(e) \/ LockBusy(e) \/ Load(e) \/ Convert(e)
             \/ CommitEmbeddings(e) \/ Finish(e) \/ AttemptFailed(e) \/ RecordDead(e)
             \/ PublishRetry(e)
      PROVE  IdleIsEmpty'
  <2>1. UNCHANGED <<ids, todo>>
    BY <1>6 DEF Take, Acquire, AcquireError, LockBusy, Load, Convert, CommitEmbeddings,
       Finish, AttemptFailed, RecordDead, PublishRetry, work
  <2>2. \E l \in ExecPc \ {"idle"} : pc' = [pc EXCEPT ![e] = l]
    BY <1>6 DEF Take, Acquire, AcquireError, LockBusy, Load, Convert, CommitEmbeddings,
       Finish, AttemptFailed, RecordDead, PublishRetry, Goto, Raise, ExecPc
  <2>3. QED
    BY <1>0, <1>2, <2>1, <2>2 DEF WorkerTypeOK
<1>7. ASSUME NEW e \in Exec,
             \/ ReplaceChunks(e) \/ ReadChunks(e) \/ UpsertBatch(e) \/ ListPoints(e)
             \/ DeleteStale(e) \/ Release(e)
      PROVE  IdleIsEmpty'
  <2>1. \E l \in ExecPc \ {"idle"} : pc' = [pc EXCEPT ![e] = l]
    BY <1>7 DEF ReplaceChunks, ReadChunks, UpsertBatch, ListPoints, DeleteStale, Release,
       Goto, Raise, ExecPc
  <2>2. ASSUME NEW f \in Exec, f # e PROVE UNCHANGED <<ids[f], todo[f]>>
    BY <1>0, <1>7, <2>2 DEF ReplaceChunks, ReadChunks, UpsertBatch, ListPoints,
       DeleteStale, Release, WorkerTypeOK, work
  <2>3. QED
    BY <1>0, <1>2, <2>1, <2>2 DEF WorkerTypeOK
<1>8. CASE UNCHANGED vars
  BY <1>1, <1>8 DEF vars
<1>9. CASE Next
  BY <1>1, <1>3, <1>4, <1>5, <1>6, <1>7, <1>9 DEF Next, ExecStep, Ack, WorkerLost
<1>10. QED
  BY <1>8, <1>9

LEMMA AboveAll ==
    ASSUME NEW a \in Nat, NEW b \in Nat, b >= a, NEW i \in Nat
    PROVE  /\ i < a => i < b /\ i \notin a .. b - 1
           /\ i \in a .. b - 1 => i < b
OBVIOUS

LEMMA IdsStep ==
    ASSUME TypeOK, IdsApart, [Next]_vars
    PROVE  IdsApart'
<1>0. IdleIsEmpty /\ IdleIsEmpty' /\ nextId \in Nat
  BY IdleStep DEF IdsApart, IdleIsEmpty, TypeOK
<1>1. CASE ~\E e \in Exec : ReplaceChunks(e)
  <2>1. ASSUME NEW d \in Doc PROVE IdsOf(d)' \subseteq IdsOf(d)
    BY <1>0, <1>1, StepGains, GainsIds
  <2>2. nextId' = nextId
    BY <1>1, NextIdStep
  <2>3. QED
    BY <1>0, <2>1, <2>2 DEF IdsApart, IdleIsEmpty
<1>2. ASSUME NEW e \in Exec, ReplaceChunks(e), NEW b \in Doc, job[e] = b
      PROVE  IdsApart'
  <2>0. nextId' \in Nat
    BY NextTypeOK DEF TypeOK
  <2>1. /\ nextId' >= nextId
        /\ Gains(b, nextId .. nextId' - 1)
        /\ \A d \in Doc \ {b} : Gains(d, {})
    BY <1>2, ReplaceGains
  <2>2. IdsOf(b)' \subseteq IdsOf(b) \cup (nextId .. nextId' - 1)
    BY <2>1, GainsIds
  <2>3. ASSUME NEW d \in Doc, d # b PROVE IdsOf(d)' \subseteq IdsOf(d)
    BY <2>1, <2>3, GainsIds
  <2>4. ASSUME NEW d \in Doc, NEW i \in IdsOf(d)
        PROVE  i \in Nat /\ i < nextId' /\ i \notin nextId .. nextId' - 1
    <3>1. i \in Nat /\ i < nextId
      BY <2>4 DEF IdsApart, IdsOf, TypeOK, WorkerTypeOK
    <3>2. QED
      BY <1>0, <2>0, <2>1, <3>1, AboveAll
  <2>5. ASSUME NEW d \in Doc, NEW i \in IdsOf(d)' PROVE i < nextId'
    <3>1. i \in IdsOf(d) \/ i \in nextId .. nextId' - 1
      BY <2>2, <2>3, <2>5
    <3>2. CASE i \in nextId .. nextId' - 1
      <4>1. i \in Nat
        BY <1>0, <3>2
      <4>2. QED
        BY <1>0, <2>0, <2>1, <3>2, <4>1, AboveAll
    <3>3. QED
      BY <2>4, <3>1, <3>2
  <2>6. ASSUME NEW c \in Doc, NEW d \in Doc, c # d
        PROVE  IdsOf(c)' \cap IdsOf(d)' = {}
    <3>1. IdsOf(c) \cap IdsOf(d) = {}
      BY <2>6 DEF IdsApart
    <3>2. ASSUME NEW i \in IdsOf(c)', i \in IdsOf(d)' PROVE FALSE
      BY <2>2, <2>3, <2>4, <2>6, <3>1, <3>2
    <3>3. QED
      BY <3>2
  <2>7. QED
    BY <1>0, <2>5, <2>6 DEF IdsApart, IdleIsEmpty
<1>3. \A e \in Exec : ReplaceChunks(e) => job[e] \in Doc
  BY ReplaceGains
<1>4. QED
  BY <1>1, <1>2, <1>3

LEMMA GcIds ==
    ASSUME GcTypeOK, IdsApart, [GcNext]_gcVars
    PROVE  IdsApart'
<1>0. TypeOK
  BY DEF GcTypeOK
<1>1. CASE [Next]_vars
  BY <1>0, <1>1, IdsStep
<1>2. CASE CollectorStep
  <2>1. UNCHANGED <<nextId, pc, job, ids, todo>>
    BY <1>2, CollectorLeaves DEF worker, delivery, work
  <2>2. ASSUME NEW d \in Doc PROVE IdsOf(d)' \subseteq IdsOf(d)
    <3>1. Gains(d, {})
      BY <1>2, <2>1, CollectorShrinks, NoGain DEF Shrinks
    <3>2. QED
      BY <3>1, GainsIds
  <2>3. QED
    BY <2>1, <2>2 DEF IdsApart
<1>3. QED
  BY <1>1, <1>2, GcCases DEF PipelineStep, gcVars

-----------------------------------------------------------------------------
(* A run that ends leaves no orphan. *)

LEMMA GcFilesOrder ==
    ASSUME [GcNext]_gcVars
    PROVE  /\ gc' = "files" => GcReadPaths \/ (gc = "files" /\ UNCHANGED known)
           /\ gc' = "docs" => GcDeleteFiles \/ gc = "docs"
<1>1. CASE UNCHANGED collector
  BY <1>1 DEF collector
<1>2. CASE PipelineStep \/ (\E d \in Doc : Age(d)) \/ UNCHANGED gcVars
  BY <1>1, <1>2 DEF PipelineStep, Age, gcVars
<1>3. CASE GcStart \/ GcPurge \/ GcUnlink \/ GcDeleteRows \/ GcVanished
  BY <1>3 DEF GcStart, GcPurge, GcUnlink, GcDeleteRows, GcVanished
<1>4. CASE \/ GcReadDocs \/ GcReadChunks \/ GcScan \/ GcDeletePoints
           \/ GcDeletePointsFails \/ GcCrash
  BY <1>4 DEF GcReadDocs, GcReadChunks, GcScan, GcDeletePoints, GcDeletePointsFails, GcCrash
<1>5. CASE GcReadPaths
  <2>1. gc' = "files"
    BY <1>5 DEF GcReadPaths
  <2>2. QED
    BY <1>5, <2>1
<1>6. CASE GcDeleteFiles
  <2>1. gc' = "docs"
    BY <1>6 DEF GcDeleteFiles
  <2>2. QED
    BY <1>6, <2>1
<1>7. QED
  BY <1>2, <1>3, <1>4, <1>5, <1>6 DEF GcNext, GcStep

(* A document that no request deletes in a step after the stale ones have
   been dealt with keeps its row and its chunks.                           *)
LEMMA KeptStep ==
    ASSUME Quiet, RunInv, gc # "idle", [GcNext]_gcVars,
           gc' \in {"files", "docs", "chunks", "scan", "points"},
           NEW d \in Doc, d \notin gone'
    PROVE  /\ d \notin gone
           /\ RowExists(d) => RowExists(d)'
           /\ chunks'[d] = chunks[d]
<1>1. /\ d \notin gone
      /\ RowExists(d) => RowExists(d)'
  <2>1. CASE PipelineStep
    BY <2>1 DEF PipelineStep
  <2>2. CASE UNCHANGED <<status, gone>>
    BY <2>2 DEF RowExists
  <2>3. CASE CollectorStep
    BY <2>2, <2>3 DEF CollectorStep, GcStep, Age, GcStart, GcPurge, GcUnlink,
       GcDeleteRows, GcVanished, GcReadPaths, GcDeleteFiles, GcReadDocs, GcReadChunks,
       GcScan, GcDeletePoints, GcDeletePointsFails, GcCrash, vars, stores
  <2>4. CASE UNCHANGED gcVars
    BY <2>2, <2>4 DEF gcVars, vars, stores
  <2>5. QED
    BY <2>1, <2>3, <2>4, GcCases
<1>2. Shrinks(d)
  BY RunShrinks
<1>3. chunks[d] # {} => RowExists(d)
  BY DEF RunInv, RowsConsistent, RowConsistent
<1>4. QED
  BY <1>1, <1>2, <1>3 DEF Shrinks

LEMMA GcExplained ==
    ASSUME Quiet, RunInv, IdsApart, Explained, [GcNext]_gcVars
    PROVE  Explained'
<1> DEFINE Reading == {"docs", "chunks", "scan", "points"}
<1>1. ASSUME gc' = "files", NEW d \in known', d \notin gone' PROVE RowExists(d)'
  <2>1. CASE GcReadPaths
    BY <1>1, <2>1 DEF GcReadPaths, RowExists, vars, stores
  <2>2. CASE gc = "files" /\ UNCHANGED known
    <3>1. d \in Doc
      BY <1>1, <2>2 DEF RunInv, GcTypeOK
    <3>2. QED
      BY <1>1, <2>2, <3>1, KeptStep DEF Explained
  <2>3. QED
    BY <1>1, <2>1, <2>2, GcFilesOrder
<1>2. ASSUME gc' \in Reading, NEW d \in Doc, d \notin gone', file'[d]
      PROVE  RowExists(d)'
  <2>1. CASE GcDeleteFiles
    <3>1. gc = "files" /\ d \in known \ gone /\ UNCHANGED status
      BY <1>2, <2>1 DEF GcDeleteFiles
    <3>2. QED
      BY <3>1 DEF Explained, RowExists
  <2>2. CASE gc \in Reading
    <3>1. Shrinks(d) /\ d \notin gone /\ (RowExists(d) => RowExists(d)')
      BY <1>2, <2>2, KeptStep, RunShrinks
    <3>2. QED
      BY <1>2, <2>2, <3>1 DEF Shrinks, Explained
  <2>3. GcReadDocs => gc \in Reading
    BY DEF GcReadDocs
  <2>4. GcReadChunks => gc \in Reading
    BY DEF GcReadChunks
  <2>5. GcScan => gc \in Reading
    BY DEF GcScan
  <2>6. QED
    BY <1>2, <2>1, <2>2, <2>3, <2>4, <2>5, GcFilesOrder, GcOrder
<1>3. ASSUME gc' = "scan", NEW d \in Doc, d \notin gone'
      PROVE  points'[d] \cap liveChunks' \subseteq chunks'[d]
  <2>1. CASE GcReadChunks
    <3>1. /\ liveChunks' = UNION {chunks[c] : c \in Doc}
          /\ UNCHANGED <<points, chunks>>
      BY <2>1 DEF GcReadChunks, vars, stores
    <3>2. ASSUME NEW c \in Doc, NEW i \in chunks[c], i \in points[d] PROVE i \in chunks[d]
      BY <3>2, InIds DEF IdsApart
    <3>3. QED
      BY <3>1, <3>2
  <2>2. CASE gc = "scan" /\ UNCHANGED liveChunks
    <3>1. Shrinks(d) /\ d \notin gone /\ chunks'[d] = chunks[d]
      BY <1>3, <2>2, KeptStep, RunShrinks
    <3>2. QED
      BY <2>2, <3>1 DEF Shrinks, Explained
  <2>3. QED
    BY <1>3, <2>1, <2>2, GcOrder
<1>4. ASSUME gc' = "points", NEW d \in Doc, d \notin gone', NEW i \in points'[d],
             <<d, i>> \notin doomed'
      PROVE  i \in chunks'[d]
  <2>1. CASE GcScan
    <3>1. /\ gc = "scan" /\ d \notin gone /\ i \in points[d]
          /\ UNCHANGED chunks
      BY <1>4, <2>1 DEF GcScan, vars, stores
    <3>2. i \in liveChunks
      BY <1>4, <2>1, <3>1 DEF GcScan
    <3>3. QED
      BY <3>1, <3>2 DEF Explained
  <2>2. CASE gc = "points" /\ UNCHANGED doomed
    <3>1. Shrinks(d) /\ d \notin gone /\ chunks'[d] = chunks[d]
      BY <1>4, <2>2, KeptStep, RunShrinks
    <3>2. QED
      BY <1>4, <2>2, <3>1 DEF Shrinks, Explained
  <2>3. QED
    BY <1>4, <2>1, <2>2, GcOrder
<1>5. QED
  BY <1>1, <1>2, <1>3, <1>4 DEF Explained

(* The whole invariant of a run beside which nothing is uploaded or indexed. *)
THEOREM GcInvariant ==
    ASSUME Quiet
    PROVE  GcSpec => []GcInv
<1>1. GcInit => GcInv
  <2>1. Init => IdsApart
    BY DEF Init, IdsApart, IdsOf
  <2>2. QED
    BY <2>1, GcInitRun DEF GcInit, GcInv, RunInv, Selected, LiveRead, Explained
<1>2. GcInv /\ [GcNext]_gcVars => GcInv'
  BY GcRunInv, GcSelected, GcLive, GcIds, GcExplained DEF GcInv, RunInv
<1>3. QED
  BY <1>1, <1>2, PTL DEF GcSpec

(* A run that reaches the deletion of the points, and is not refused it, leaves
   no point without its chunk row and no file without its document, but those
   of documents that requests have deleted meanwhile.                      *)
THEOREM NoOrphanIsLeft ==
    ASSUME Quiet
    PROVE  GcSpec => RunLeavesNoOrphans
<1>1. ASSUME GcInv, GcDeletePoints PROVE NoOrphans'
  <2>1. /\ gc = "points" /\ UNCHANGED <<status, chunks, file, gone>>
        /\ points' = [d \in Doc |-> {i \in points[d] : <<d, i>> \notin doomed}]
    BY <1>1 DEF GcDeletePoints
  <2>2. ASSUME NEW d \in Doc, d \notin gone
        PROVE  points'[d] \subseteq chunks[d] /\ (file[d] => RowExists(d))
    BY <1>1, <2>1, <2>2 DEF GcInv, Explained
  <2>3. QED
    BY <2>1, <2>2 DEF NoOrphans, RowExists
<1>2. GcInv /\ [GcNext]_gcVars => [GcDeletePoints => NoOrphans']_gcVars
  BY <1>1
<1>3. QED
  BY <1>2, GcInvariant, PTL DEF GcSpec, RunLeavesNoOrphans

-----------------------------------------------------------------------------
(* The invariant of the pipeline, and what it publishes, beside the collector. *)

(* The steps of the collector that change a store, all of them in a run. *)
Writing == GcPurge \/ GcUnlink \/ GcDeleteRows \/ GcDeleteFiles \/ GcDeletePoints

LEMMA CollectorCases ==
    ASSUME CollectorStep
    PROVE  UNCHANGED <<stores, purged>> \/ Writing
BY DEF CollectorStep, Writing, GcStep, Age, GcStart, GcVanished, GcReadPaths, GcReadDocs,
   GcReadChunks, GcScan, GcDeletePointsFails, GcCrash, vars, api

(* While the collector writes, no attempt is at work. *)
LEMMA WritingAlone ==
    ASSUME Quiet, Stopped, Writing, NEW e \in Exec
    PROVE  pc'[e] = "idle"
<1>1. gc # "idle" /\ UNCHANGED pc
  BY DEF Writing, GcPurge, GcUnlink, GcDeleteRows, GcDeleteFiles, GcDeletePoints, worker
<1>2. QED
  BY <1>1 DEF Stopped, AtRest

(* It leaves every document that is shown as indexed as it is, up to points
   without chunk rows, and shows no document as indexed.                   *)
LEMMA WritingSpares ==
    ASSUME GcInv, Writing, NEW d \in Doc, status'[d] = "indexed"
    PROVE  /\ status[d] = "indexed" /\ chunks'[d] = chunks[d]
           /\ points'[d] \subseteq points[d]
           /\ points[d] \cap chunks[d] \subseteq points'[d]
<1>0. TypeOK /\ GcTypeOK
  BY DEF GcInv, GcTypeOK
<1>1. CASE GcPurge
  <2>1. Head(stale) \in Doc /\ 1 \in DOMAIN stale /\ Head(stale) = stale[1]
    BY <1>0, <1>1, AtHand DEF GcPurge, GcTypeOK
  <2>2. status[Head(stale)] # "indexed"
    BY <1>1, <2>1 DEF GcPurge, GcInv, Selected, Expired, RowExists
  <2>3. UNCHANGED <<status, chunks>>
    BY <1>1 DEF GcPurge
  <2>4. points'[d] = points[d]
    BY <1>0, <1>1, <2>2, <2>3 DEF GcPurge, TypeOK
  <2>5. QED
    BY <2>3, <2>4
<1>2. CASE GcUnlink \/ GcDeleteFiles
  BY <1>2 DEF GcUnlink, GcDeleteFiles
<1>3. CASE GcDeleteRows
  <2>1. Head(stale) \in Doc /\ UNCHANGED points
    BY <1>0, <1>3, AtHand DEF GcDeleteRows, GcTypeOK
  <2>2. QED
    BY <1>0, <1>3, <2>1 DEF GcDeleteRows, TypeOK
<1>4. CASE GcDeletePoints
  <2>1. /\ gc = "points" /\ UNCHANGED <<status, chunks>>
        /\ points'[d] = {i \in points[d] : <<d, i>> \notin doomed}
    BY <1>4 DEF GcDeletePoints
  <2>2. \A i \in chunks[d] : <<d, i>> \notin doomed
    BY <2>1 DEF GcInv, LiveRead
  <2>3. QED
    BY <2>1, <2>2
<1>5. QED
  BY <1>1, <1>2, <1>3, <1>4 DEF Writing

LEMMA GcProgress ==
    ASSUME Quiet, GcInv, KeyInv, IndexedIsSearchable, IndexedIsClean,
           \A f \in Exec : Progress(f), [GcNext]_gcVars
    PROVE  IndexedIsSearchable' /\ IndexedIsClean' /\ \A f \in Exec : Progress(f)'
<1>1. CASE [Next]_vars
  BY <1>1, NextProgress DEF GcInv
<1>2. CASE CollectorStep /\ UNCHANGED <<stores, purged>>
  <2>1. UNCHANGED <<pc, job, ids, todo>>
    BY <1>2, CollectorLeaves DEF worker, delivery, work
  <2>2. (\A d \in Doc : Calm(d)) /\ \A f \in Exec : Steady(f)
    BY <1>2, <2>1 DEF Calm, Steady, RowExists, stores
  <2>3. QED
    BY <2>2, CalmStep DEF KeyInv
<1>3. CASE CollectorStep /\ Writing
  <2>1. UNCHANGED purged
    BY <1>3, CollectorLeaves DEF api
  <2>2. ASSUME NEW d \in Doc, status'[d] = "indexed" PROVE Searchable(d)'
    <3>1. /\ status[d] = "indexed" /\ chunks'[d] = chunks[d]
          /\ points'[d] \subseteq points[d]
          /\ points[d] \cap chunks[d] \subseteq points'[d]
      BY <1>3, <2>2, WritingSpares
    <3>2. QED
      BY <2>1, <3>1 DEF IndexedIsSearchable, IndexedIsClean, Searchable
  <2>3. IndexedIsSearchable' /\ IndexedIsClean'
    BY <2>2 DEF IndexedIsSearchable, IndexedIsClean, Searchable
  <2>4. ASSUME NEW f \in Exec PROVE Progress(f)'
    BY <1>3, WritingAlone DEF GcInv, Progress, Working
  <2>5. QED
    BY <2>3, <2>4
<1>4. QED
  BY <1>1, <1>2, <1>3, GcCases, CollectorCases DEF PipelineStep, gcVars

LEMMA GcPipeline ==
    ASSUME Quiet, NoLockLoss
    PROVE  GcSpec => [](GcInv /\ IInv)
<1>1. GcInit => IInv
  BY InitTypeOK, InitOwnsKey, InitRows, InitProgress DEF GcInit, IInv
<1>2. GcInv /\ GcInv' /\ IInv /\ [GcNext]_gcVars => IInv'
  BY GcKey, GcProgress DEF IInv, GcInv, KeyInv, GcTypeOK
<1>3. QED
  BY <1>1, <1>2, GcInvariant, PTL DEF GcSpec

(* An indexed document keeps its chunk rows and exactly their points also when
   the collector runs, unless a delete request has removed the points.     *)
THEOREM IndexedStaysBesideGc ==
    ASSUME Quiet, NoLockLoss
    PROVE  GcSpec => []IndexedIsSearchable
<1>1. IInv => IndexedIsSearchable
  BY DEF IInv
<1>2. QED
  BY <1>1, GcPipeline, PTL

(* A run withdraws no point that a search can return, and deletes only what is
   not shown as indexed.                                                   *)
LEMMA WritingRefines ==
    ASSUME GcInv, IInv, Writing, UNCHANGED purged
    PROVE  [Pub!Next]_(Pub!vars)
<1>0. TypeOK
  BY DEF IInv
<1>1. ASSUME NEW d \in Doc, status'[d] = "indexed"
      PROVE  status[d] = "indexed" /\ points'[d] = points[d]
  <2>1. /\ status[d] = "indexed"
        /\ points'[d] \subseteq points[d]
        /\ points[d] \cap chunks[d] \subseteq points'[d]
    BY <1>1, WritingSpares
  <2>2. QED
    BY <2>1 DEF IInv, IndexedIsClean
<1>2. CASE UNCHANGED status
  BY <1>1, <1>2, Stutter
<1>3. CASE GcDeleteRows
  <2> DEFINE d == Head(stale)
  <2>1. /\ d \in Doc /\ 1 \in DOMAIN stale /\ d = stale[1] /\ gc = "rows"
        /\ UNCHANGED points
    BY <1>3, AtHand DEF GcDeleteRows, GcInv, GcTypeOK
  <2>2. CASE RowExists(d) /\ status' = [status EXCEPT ![d] = "deleted"]
    <3>1. status[d] # "indexed"
      BY <2>1, <2>2 DEF GcInv, Selected, Expired
    <3>2. Served' = Served
      BY <1>0, <2>1, <2>2, <3>1 DEF Served, TypeOK
    <3>3. Pub!Discard(d)
      BY <2>2, <3>1, <3>2 DEF Pub!Discard, Pub!Exists, RowExists
    <3>4. QED
      BY <2>1, <3>3 DEF Pub!Next
  <2>3. QED
    BY <1>2, <1>3, <2>2 DEF GcDeleteRows
<1>4. QED
  BY <1>2, <1>3 DEF Writing, GcPurge, GcUnlink, GcDeleteFiles, GcDeletePoints

(* The pipeline and the collector together publish, withdraw and delete as
   DocPublication allows: the composition implements what is promised to those
   who search.                                                             *)
THEOREM GcRefinement ==
    ASSUME Quiet, NoLockLoss
    PROVE  GcSpec => PublishesAtomically
<1>1. GcInit => Pub!Init
  BY DEF GcInit, Init, Pub!Init, Served
<1>2. ASSUME GcInv, IInv, IInv', [GcNext]_gcVars
      PROVE  [Pub!Next]_(Pub!vars)
  <2>1. CASE [Next]_vars
    BY <1>2, <2>1, NextRefines
  <2>2. CASE CollectorStep /\ UNCHANGED <<stores, purged>>
    BY <2>2, Stutter DEF stores
  <2>3. CASE CollectorStep /\ Writing
    BY <1>2, <2>3, CollectorLeaves, WritingRefines DEF api
  <2>4. QED
    BY <1>2, <2>1, <2>2, <2>3, GcCases, CollectorCases DEF PipelineStep, gcVars
<1>3. GcInv /\ IInv /\ IInv' /\ [GcNext]_gcVars => [Pub!Next]_(Pub!vars)
  BY <1>2
<1>4. QED
  BY <1>1, <1>3, GcPipeline, PTL DEF GcSpec, PublishesAtomically
=============================================================================
