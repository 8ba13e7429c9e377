-------------------------------- MODULE DocGc --------------------------------
(***************************************************************************)
(* The garbage collector (app/services/gc_service.py, run with --execute by *)
(* scripts/gc.py) beside the document pipeline of DocIndex.  It works on   *)
(* the same stores, in four stages, and takes no lock:                     *)
(*   documents that failed long ago, or are stuck, are deleted;            *)
(*   files that no row names are deleted;                                  *)
(*   points that no row explains are deleted.                              *)
(* Derived assets follow their file and are left out.  A dry run and the   *)
(* skip flags leave out stages, and change nothing besides.                *)
(***************************************************************************)
EXTENDS DocIndex, SequencesExt

CONSTANT
    Quiet    \* nothing is uploaded or indexed while the collector runs

ASSUME GcAssumption == Quiet \in BOOLEAN /\ IsFiniteSet(Doc)

VARIABLES
    old,        \* documents whose updated_at is before the age limit
    gc,         \* what the collector does next
    stale,      \* the documents its query returned, still to be deleted
    known,      \* documents with a row when it read the storage paths
    liveDocs,   \* live_doc_ids
    liveChunks, \* live_chunk_ids
    doomed,     \* delete_ids, with their documents
    gone        \* history: documents that requests have deleted during the run

collector == <<gc, stale, known, liveDocs, liveChunks, doomed>>
gcVars    == <<vars, old, collector, gone>>

GcPc == {"idle", "stale", "unlink", "rows", "next", "files", "docs", "chunks",
         "scan", "points"}

GcInit ==
    /\ Init
    /\ old = {}
    /\ gc = "idle"
    /\ stale = <<>>
    /\ known = {}
    /\ liveDocs = {}
    /\ liveChunks = {}
    /\ doomed = {}
    /\ gone = {}

(* Whoever runs the collector has stopped uploads and executions, if any are to
   be stopped; messages may be waiting.                                     *)
AtRest ==
    Quiet =>
        /\ \A d \in Doc : upload[d] \notin {"saved", "inserted", "enqueueFailed"}
        /\ \A e \in Exec : pc[e] = "idle"

(* The rule of the query on documents.status and updated_at. *)
Expired(d) == d \in old /\ status[d] \in {"failed", "uploaded", "indexing"}

-----------------------------------------------------------------------------
(* A pipeline step; an update of the row renews updated_at. *)
PipelineStep ==
    /\ Next
    /\ Quiet => gc = "idle" \/ UNCHANGED <<upload, worker>>
    /\ old' = {d \in old : status'[d] = status[d]}
    /\ gone' = gone \cup {d \in Doc : gc # "idle" /\ RowExists(d) /\ ~RowExists(d)'}
    /\ UNCHANGED collector

(* The age limit passes.  It is hours or days: the upload request is over, and
   an attempt, which begins with an update of the row, does not last so long. *)
Age(d) ==
    /\ RowExists(d)
    /\ d \notin old
    /\ upload[d] \in {"done", "crashed"}
    /\ \A e \in Exec : job[e] = d => pc[e] \in {"acquire", "busy", "load", "ack"}
    /\ old' = old \cup {d}
    /\ UNCHANGED <<vars, collector, gone>>

-----------------------------------------------------------------------------
(* collect_stale_documents; the sequence is the result of its query. *)

(* Mutant: the query forgets the age limit. *)
GcStartAnyAge ==
    /\ gc = "idle"
    /\ AtRest
    /\ gc' = "stale"
    /\ stale' \in SetToSeqs({d \in Doc : status[d] \in {"failed", "uploaded", "indexing"}})
    /\ gone' = {}
    /\ UNCHANGED <<vars, old, known, liveDocs, liveChunks, doomed>>

(* Mutant: the query leaves out the stuck documents. *)
GcStartFailedOnly ==
    /\ gc = "idle"
    /\ AtRest
    /\ gc' = "stale"
    /\ stale' \in SetToSeqs({d \in Doc : d \in old /\ status[d] = "failed"})
    /\ gone' = {}
    /\ UNCHANGED <<vars, old, known, liveDocs, liveChunks, doomed>>

GcStart ==
    /\ gc = "idle"
    /\ AtRest
    /\ gc' = "stale"
    /\ stale' \in SetToSeqs({d \in Doc : Expired(d)})
    /\ gone' = {}
    /\ UNCHANGED <<vars, old, known, liveDocs, liveChunks, doomed>>

(* A Qdrant error is reported or ignored, and the deletion goes on. *)
GcPurge ==
    /\ gc \in {"stale", "next"} /\ stale # <<>>
    /\ gc = "next" => RowExists(Head(stale))
    /\ gc' = "unlink"
    /\ points' = [points EXCEPT ![Head(stale)] = {}] \/ UNCHANGED points
    /\ UNCHANGED <<status, chunks, nextId, file, lock, broker, api, worker,
                   faults, old, stale, known, liveDocs, liveChunks, doomed, gone>>

GcUnlink ==
    /\ gc = "unlink"
    /\ gc' = "rows"
    /\ file' = [file EXCEPT ![Head(stale)] = FALSE]
    /\ UNCHANGED <<status, chunks, nextId, points, lock, broker, api, worker,
                   faults, old, stale, known, liveDocs, liveChunks, doomed, gone>>

(* One transaction deletes the chunk rows and the row, whatever its status
   has become; it waits for a delete request that holds the chunk rows, and
   changes nothing when the row is gone or the database refuses.           *)
GcDeleteRows ==
    /\ gc = "rows"
    /\ ~ChunkRowsLocked(Head(stale))
    /\ \/ /\ RowExists(Head(stale))
          /\ status' = [status EXCEPT ![Head(stale)] = "deleted"]
          /\ chunks' = [chunks EXCEPT ![Head(stale)] = {}]
          /\ old' = old \ {Head(stale)}
          /\ UNCHANGED faults
       \/ /\ ~RowExists(Head(stale))
          /\ UNCHANGED <<status, chunks, old, faults>>
       \/ /\ Fault("db")
          /\ UNCHANGED <<status, chunks, old>>
    /\ gc' = "next"
    /\ stale' = Tail(stale)
    /\ UNCHANGED <<nextId, file, points, lock, broker, api, worker,
                   known, liveDocs, liveChunks, doomed, gone>>

(* The commit has expired the objects of the query: the next one is read anew,
   outside the handler's try, and ends the run when its row is gone.        *)
GcVanished ==
    /\ gc = "next" /\ stale # <<>>
    /\ ~RowExists(Head(stale))
    /\ gc' = "idle"
    /\ stale' = <<>>
    /\ UNCHANGED <<vars, old, known, liveDocs, liveChunks, doomed, gone>>

-----------------------------------------------------------------------------
(* collect_orphan_files and collect_orphan_qdrant_points. *)

GcReadPaths ==
    /\ gc \in {"stale", "next"} /\ stale = <<>>
    /\ gc' = "files"
    /\ known' = {d \in Doc : RowExists(d)}
    /\ UNCHANGED <<vars, old, stale, liveDocs, liveChunks, doomed, gone>>

GcDeleteFiles ==
    /\ gc = "files"
    /\ gc' = "docs"
    /\ file' = [d \in Doc |-> file[d] /\ d \in known]
    /\ known' = {}
    /\ UNCHANGED <<status, chunks, nextId, points, lock, broker, api, worker,
                   faults, old, stale, liveDocs, liveChunks, doomed, gone>>

GcReadDocs ==
    /\ gc = "docs"
    /\ gc' = "chunks"
    /\ liveDocs' = {d \in Doc : RowExists(d)}
    /\ UNCHANGED <<vars, old, stale, known, liveChunks, doomed, gone>>

(* Mutant: only the chunks of indexed documents are read. *)
GcReadIndexedChunks ==
    /\ gc = "chunks"
    /\ gc' = "scan"
    /\ liveChunks' = UNION {chunks[d] : d \in {f \in Doc : status[f] = "indexed"}}
    /\ UNCHANGED <<vars, old, stale, known, liveDocs, doomed, gone>>

GcReadChunks ==
    /\ gc = "chunks"
    /\ gc' = "scan"
    /\ liveChunks' = UNION {chunks[d] : d \in Doc}
    /\ UNCHANGED <<vars, old, stale, known, liveDocs, doomed, gone>>

(* Mutant: the two conditions are combined with "and". *)
GcScanBoth ==
    /\ gc = "scan"
    /\ gc' = "points"
    /\ doomed' = {p \in UNION {{d} \X points[d] : d \in Doc} :
                    p[1] \notin liveDocs /\ p[2] \notin liveChunks}
    /\ liveDocs' = {}
    /\ liveChunks' = {}
    /\ UNCHANGED <<vars, old, stale, known, gone>>

GcScan ==
    /\ gc = "scan"
    /\ \/ /\ gc' = "points"
          /\ doomed' = {p \in UNION {{d} \X points[d] : d \in Doc} :
                          p[1] \notin liveDocs \/ p[2] \notin liveChunks}
       \/ gc' = "idle" /\ UNCHANGED doomed
    /\ liveDocs' = {}
    /\ liveChunks' = {}
    /\ UNCHANGED <<vars, old, stale, known, gone>>

(* Qdrant deletes the points, or the request fails and is reported. *)
GcDeletePoints ==
    /\ gc = "points"
    /\ points' = [d \in Doc |-> {i \in points[d] : <<d, i>> \notin doomed}]
    /\ doomed' = {}
    /\ gc' = "idle"
    /\ UNCHANGED <<status, chunks, nextId, file, lock, broker, api, worker,
                   faults, old, stale, known, liveDocs, liveChunks, gone>>

GcDeletePointsFails ==
    /\ gc = "points"
    /\ doomed' = {}
    /\ gc' = "idle"
    /\ UNCHANGED <<vars, old, stale, known, liveDocs, liveChunks, gone>>

(* The script dies or is interrupted. *)
GcCrash ==
    /\ gc # "idle"
    /\ Fault("crash")
    /\ gc' = "idle"
    /\ stale' = <<>>
    /\ known' = {}
    /\ liveDocs' = {}
    /\ liveChunks' = {}
    /\ doomed' = {}
    /\ UNCHANGED <<stores, lock, broker, api, worker, old, gone>>

GcStep ==
    \/ GcPurge \/ GcUnlink \/ GcDeleteRows \/ GcVanished \/ GcReadPaths
    \/ GcDeleteFiles \/ GcReadDocs \/ GcReadChunks \/ GcScan \/ GcDeletePoints
    \/ GcDeletePointsFails

GcNext ==
    \/ PipelineStep
    \/ \E d \in Doc : Age(d)
    \/ GcStart \/ GcStep \/ GcCrash

GcSpec == GcInit /\ [][GcNext]_gcVars

(* The collector is run again and again, by an operator or a timer, and time
   passes; PostgreSQL grants it a row lock it waits for.                   *)
GcFairSpec ==
    /\ GcSpec
    /\ Fairness
    /\ WF_gcVars(GcStart) /\ WF_gcVars(GcStep) /\ SF_gcVars(GcDeleteRows)
    /\ \A d \in Doc : WF_gcVars(Age(d))

-----------------------------------------------------------------------------
(* A run that ends with the deletion of the points leaves no point without
   its chunk row and no file without its document, apart from what belongs to
   documents deleted during the run (gc_service.py, 97-129 and 224-269): what
   crashes, failed requests and late writes left in the stores is gone.    *)
NoOrphans ==
    \A d \in Doc \ gone : /\ points[d] \subseteq chunks[d]
                          /\ file[d] => RowExists(d)

RunLeavesNoOrphans == [][GcDeletePoints => NoOrphans']_gcVars

(* Only a document that failed or is stuck, and has been so for long, is
   deleted by the collector ("deletes database documents only when explicitly
   requested by age/status rules", gc_service.py, 6).                      *)
DeletesByRule ==
    [][\A d \in Doc : gc = "rows" /\ gc' # "rows" /\ status[d] # "deleted"
                      /\ status'[d] = "deleted" => Expired(d)]_gcVars

(* The deletion of orphan points takes no point whose chunk row exists
   (gc_service.py, 224-269; "intentionally conservative", gc_service.py, 3). *)
OrphanScanSparesLive ==
    [][GcDeletePoints =>
         \A d \in Doc : (points[d] \ points'[d]) \cap chunks[d] = {}]_gcVars

(* A document without a message or an execution, left uploaded or indexing
   by a crash between insert and enqueueing or by a lost retry, does not stay
   so: a run of the collector deletes it (gc_service.py, 179-221).         *)
Stuck(d) ==
    /\ status[d] \in {"uploaded", "indexing"}
    /\ upload[d] \in {"done", "crashed"}
    /\ ~Pending(d)

StuckIsCollected == \A d \in Doc : Stuck(d) ~> status[d] = "deleted"
-----------------------------------------------------------------------------
(* The inductive invariant behind the safety properties, for Quiet = TRUE. *)

(* Every variable has its type; a document is at hand while it is deleted. *)
GcTypeOK ==
    /\ TypeOK
    /\ old \subseteq Doc
    /\ gc \in GcPc
    /\ stale \in Seq(Doc)
    /\ known \subseteq Doc
    /\ liveDocs \subseteq Doc
    /\ liveChunks \subseteq Nat
    /\ doomed \subseteq Doc \X Nat
    /\ gone \subseteq Doc
    /\ gc \in {"unlink", "rows"} => stale # <<>>

(* What was stopped before the run has not been started again. *)
Stopped == gc # "idle" => AtRest

(* What the query returned is as it was, or gone. *)
Selected ==
    gc \in {"stale", "unlink", "rows", "next"} =>
        \A i \in DOMAIN stale : Expired(stale[i]) \/ ~RowExists(stale[i])

(* No chunk row has appeared behind the back of the two queries. *)
LiveRead ==
    /\ gc \in {"chunks", "scan"} => \A d \in Doc : RowExists(d) => d \in liveDocs
    /\ gc = "scan" => \A d \in Doc : chunks[d] \subseteq liveChunks
    /\ gc = "points" => \A d \in Doc : \A i \in chunks[d] : <<d, i>> \notin doomed

(* The chunk ids a document has had and may still be read, written or found
   under; no two documents ever have one in common.                        *)
IdsOf(d) ==
    points[d] \cup chunks[d] \cup
    UNION {ids[e] \cup todo[e] : e \in {f \in Exec : job[f] = d}}

IdsApart ==
    /\ \A d \in Doc : \A i \in IdsOf(d) : i < nextId
    /\ \A c, d \in Doc : c # d => IdsOf(c) \cap IdsOf(d) = {}
    /\ \A e \in Exec : pc[e] = "idle" => ids[e] = {} /\ todo[e] = {}

(* Of documents that no request deletes meanwhile, what is not marked for
   deletion belongs to what is there.                                      *)
Explained ==
    /\ gc = "files" => \A d \in known \ gone : RowExists(d)
    /\ gc \in {"docs", "chunks", "scan", "points"} =>
          \A d \in Doc \ gone : file[d] => RowExists(d)
    /\ gc = "scan" => \A d \in Doc \ gone : points[d] \cap liveChunks \subseteq chunks[d]
    /\ gc = "points" =>
          \A d \in Doc \ gone : \A i \in points[d] :
              <<d, i>> \notin doomed => i \in chunks[d]

GcInv ==
    /\ GcTypeOK
    /\ RowsConsistent
    /\ Stopped
    /\ Selected
    /\ LiveRead
    /\ IdsApart
    /\ Explained
=============================================================================
