----------------------------- MODULE VisionSlots -----------------------------
(***************************************************************************)
(* Image understanding during a document conversion: the image coroutines  *)
(* of app/rag/chunker.py with their per-document semaphores and caption    *)
(* budget, the captioner of app/rag/vision.py, and the semaphore that all  *)
(* worker processes share, a Redis sorted set of leases                    *)
(* (app/rag/distributed_limit.py).                                         *)
(*                                                                         *)
(* Time is a set of countdowns that Tick lowers: what is left of a lease,  *)
(* of the key's own TTL, of a request's deadline and of the timeout of     *)
(* what it waits for.  A request has a token of its own, so the image      *)
(* stands for its token.                                                   *)
(***************************************************************************)
EXTENDS Naturals, FiniteSets

CONSTANTS
    Image,        \* images, each processed once
    Doc,          \* documents under conversion, each in a worker process
    DocOf,        \* the document an image belongs to
    OcrSlots,     \* RAG_OCR_CONCURRENCY, per document
    LocalSlots,   \* RAG_VISION_CONCURRENCY, per document
    MaxCaptions,  \* VISION_MAX_CAPTIONS_PER_DOCUMENT
    Slots,        \* VISION_GLOBAL_CONCURRENCY
    TTL,          \* VISION_GLOBAL_SLOT_TTL_SECONDS
    CallTime,     \* VISION_TIMEOUT_SECONDS * (VISION_MAX_RETRIES + 1)
    ReplyTime,    \* socket_timeout of the Redis client
    AcquireTime   \* VISION_GLOBAL_ACQUIRE_TIMEOUT_SECONDS

(* config.py, 117-120: the lease is at least as long as a call and the five
   seconds that a Redis answer may take.                                   *)
ASSUME VisionAssumption ==
    /\ IsFiniteSet(Image)
    /\ DocOf \in [Image -> Doc]
    /\ {OcrSlots, LocalSlots, Slots, CallTime, ReplyTime, AcquireTime} \subseteq Nat \ {0}
    /\ MaxCaptions \in Nat
    /\ TTL \in Nat /\ TTL >= CallTime + ReplyTime

VARIABLES
    pc,         \* where the coroutine of an image is
    calls,      \* context.calls of a document's conversion
    wait,       \* until the deadline of vision_global_slot
    timer,      \* until the timeout of the Redis answer or of the model call
    inflight,   \* images whose acquire script has not reached Redis
    answer,     \* the script's answer on its way back
    leases,     \* members of semaphore:rag:vision
    left,       \* until the score of a member is in the past
    keyLeft     \* until the key itself expires

coroutines == <<pc, calls, wait, timer, inflight, answer>>
redis      == <<leases, left, keyLeft>>
vars       == <<coroutines, redis>>

-----------------------------------------------------------------------------
ImagePc == {"start", "ocr", "local", "try", "sent", "pause", "calling",
            "release", "done"}

Goto(i, l) == pc' = [pc EXCEPT ![i] = l]

(* Images of d whose coroutine is at one of the places l. *)
At(d, l) == {i \in Image : DocOf[i] = d /\ pc[i] \in l}

(* Who holds the vision_semaphore of its document. *)
Local == {"try", "sent", "pause", "calling", "release"}

Live == {i \in leases : left[i] > 0}

Less(n) == IF n > 0 THEN n - 1 ELSE 0

Init ==
    /\ pc = [i \in Image |-> "start"]
    /\ calls = [d \in Doc |-> 0]
    /\ wait = [i \in Image |-> 0]
    /\ timer = [i \in Image |-> 0]
    /\ inflight = {}
    /\ answer = [i \in Image |-> "none"]
    /\ leases = {}
    /\ left = [i \in Image |-> 0]
    /\ keyLeft = 0

-----------------------------------------------------------------------------
(* The coroutine of an image. *)

StartOcr(i) ==
    /\ pc[i] = "start"
    /\ Cardinality(At(DocOf[i], {"ocr"})) < OcrSlots
    /\ Goto(i, "ocr")
    /\ UNCHANGED <<calls, wait, timer, inflight, answer, redis>>

(* The OCR text decides, with the document's budget, whether the image gets
   a caption.                                                              *)
EndOcr(i) ==
    /\ pc[i] = "ocr"
    /\ \/ /\ calls[DocOf[i]] < MaxCaptions
          /\ calls' = [calls EXCEPT ![DocOf[i]] = @ + 1]
          /\ Goto(i, "local")
       \/ Goto(i, "done") /\ UNCHANGED calls
    /\ UNCHANGED <<wait, timer, inflight, answer, redis>>

(* Inside the semaphore: the caption is cached, or a global slot is needed. *)
EnterLocal(i) ==
    /\ pc[i] = "local"
    /\ Cardinality(At(DocOf[i], Local)) < LocalSlots
    /\ \/ Goto(i, "done") /\ UNCHANGED wait
       \/ Goto(i, "try") /\ wait' = [wait EXCEPT ![i] = AcquireTime]
    /\ UNCHANGED <<calls, timer, inflight, answer, redis>>

(* One turn of the acquire loop, or its end when the deadline has passed. *)
Try(i) ==
    /\ pc[i] = "try"
    /\ \/ /\ wait[i] > 0
          /\ Goto(i, "sent")
          /\ timer' = [timer EXCEPT ![i] = ReplyTime]
          /\ inflight' = inflight \cup {i}
       \/ /\ wait[i] = 0
          /\ Goto(i, "done")
          /\ UNCHANGED <<timer, inflight>>
    /\ UNCHANGED <<calls, wait, answer, redis>>

(* Mutant: the count is compared with <= . *)
EvalOffByOne(i) ==
    /\ i \in inflight
    /\ inflight' = inflight \ {i}
    /\ \/ /\ Cardinality(Live) <= Slots
          /\ leases' = Live \cup {i}
          /\ left' = [left EXCEPT ![i] = TTL]
          /\ keyLeft' = TTL + 1
          /\ answer' = [answer EXCEPT ![i] = IF pc[i] = "sent" THEN "yes" ELSE "none"]
       \/ /\ Cardinality(Live) > Slots
          /\ leases' = Live
          /\ answer' = [answer EXCEPT ![i] = IF pc[i] = "sent" THEN "no" ELSE "none"]
          /\ UNCHANGED <<left, keyLeft>>
    /\ UNCHANGED <<pc, calls, wait, timer>>

(* Redis runs the acquire script, possibly after its sender has given up or
   was cancelled, and answers; an answer nobody waits for any more is lost,
   and any other answer may be.                                            *)
Eval(i) ==
    /\ i \in inflight
    /\ inflight' = inflight \ {i}
    /\ \/ /\ Cardinality(Live) < Slots
          /\ leases' = Live \cup {i}
          /\ left' = [left EXCEPT ![i] = TTL]
          /\ keyLeft' = TTL + 1
          /\ \/ pc[i] = "sent" /\ answer' = [answer EXCEPT ![i] = "yes"]
             \/ UNCHANGED answer
       \/ /\ ~(Cardinality(Live) < Slots)
          /\ leases' = Live
          /\ \/ pc[i] = "sent" /\ answer' = [answer EXCEPT ![i] = "no"]
             \/ UNCHANGED answer
          /\ UNCHANGED <<left, keyLeft>>
    /\ UNCHANGED <<pc, calls, wait, timer>>

(* The script never reaches Redis. *)
Lose(i) ==
    /\ i \in inflight
    /\ inflight' = inflight \ {i}
    /\ UNCHANGED <<pc, calls, wait, timer, answer, redis>>

(* acquired, and the call of the model begins; or the slots are taken. *)
Answered(i) ==
    /\ pc[i] = "sent"
    /\ timer[i] > 0
    /\ \/ /\ answer[i] = "yes"
          /\ Goto(i, "calling")
          /\ timer' = [timer EXCEPT ![i] = CallTime]
       \/ /\ answer[i] = "no"
          /\ Goto(i, "pause")
          /\ timer' = [timer EXCEPT ![i] = 0]
    /\ answer' = [answer EXCEPT ![i] = "none"]
    /\ UNCHANGED <<calls, wait, inflight, redis>>

(* Mutant: the Redis client has no socket_timeout. *)
AcquireErrorNever(i) ==
    /\ pc[i] = "sent"
    /\ FALSE
    /\ UNCHANGED vars

(* The client raises a RedisError, at the latest after socket_timeout: the
   image goes without a caption.                                           *)
AcquireError(i) ==
    /\ pc[i] = "sent"
    /\ Goto(i, "done")
    /\ timer' = [timer EXCEPT ![i] = 0]
    /\ answer' = [answer EXCEPT ![i] = "none"]
    /\ UNCHANGED <<calls, wait, inflight, redis>>

(* The pause of 0.1 s between two turns of the loop. *)
Resume(i) ==
    /\ pc[i] = "pause"
    /\ Goto(i, "try")
    /\ UNCHANGED <<calls, wait, timer, inflight, answer, redis>>

(* The model answers or fails, at the latest when the client times out. *)
EndCall(i) ==
    /\ pc[i] = "calling"
    /\ Goto(i, "release")
    /\ timer' = [timer EXCEPT ![i] = 0]
    /\ UNCHANGED <<calls, wait, inflight, answer, redis>>

(* Mutant: the release deletes the whole key. *)
ReleaseAll(i) ==
    /\ pc[i] = "release"
    /\ Goto(i, "done")
    /\ leases' = {}
    /\ left' = [j \in Image |-> 0]
    /\ keyLeft' = 0
    /\ UNCHANGED <<calls, wait, timer, inflight, answer>>

(* finally: ZREM of the own token, whose errors are swallowed. *)
Release(i) ==
    /\ pc[i] = "release"
    /\ Goto(i, "done")
    /\ \/ /\ leases' = leases \ {i}
          /\ left' = [left EXCEPT ![i] = 0]
          /\ keyLeft' = IF leases \ {i} = {} THEN 0 ELSE keyLeft
       \/ UNCHANGED redis
    /\ UNCHANGED <<calls, wait, timer, inflight, answer>>

-----------------------------------------------------------------------------
(* A conversion that ends early. *)

(* RAG_DOCUMENT_TIMEOUT_SECONDS passes, or an image of the batch raises, and
   every coroutine is cancelled: one inside the slot still releases it; one
   whose script is on its way knows of no slot, and its thread runs on.    *)
Cancel(d) ==
    /\ At(d, ImagePc \ {"release", "done"}) # {}
    /\ pc' = [i \in Image |->
                CASE DocOf[i] # d \/ pc[i] \in {"release", "done"} -> pc[i]
                  [] DocOf[i] = d /\ pc[i] = "calling"             -> "release"
                  [] OTHER                                         -> "done"]
    /\ timer' = [i \in Image |-> IF DocOf[i] = d THEN 0 ELSE timer[i]]
    /\ answer' = [i \in Image |-> IF DocOf[i] = d THEN "none" ELSE answer[i]]
    /\ UNCHANGED <<calls, wait, inflight, redis>>

(* The process dies: nothing is released. *)
Crash(d) ==
    /\ At(d, ImagePc \ {"done"}) # {}
    /\ pc' = [i \in Image |-> IF DocOf[i] = d THEN "done" ELSE pc[i]]
    /\ timer' = [i \in Image |-> IF DocOf[i] = d THEN 0 ELSE timer[i]]
    /\ answer' = [i \in Image |-> IF DocOf[i] = d THEN "none" ELSE answer[i]]
    /\ UNCHANGED <<calls, wait, inflight, redis>>

-----------------------------------------------------------------------------
(* Mutant: the key has no TTL of its own. *)
TickKeyStays ==
    /\ \A i \in Image : pc[i] \in {"sent", "calling"} => timer[i] > 0
    /\ timer' = [i \in Image |-> Less(timer[i])]
    /\ wait' = [i \in Image |-> Less(wait[i])]
    /\ left' = [i \in Image |-> Less(left[i])]
    /\ UNCHANGED <<keyLeft, leases, pc, calls, inflight, answer>>

(* Time passes, except past a timeout that has not fired.  A lease whose
   time is over stays in the set until a script removes it or the key goes. *)
Tick ==
    /\ \A i \in Image : pc[i] \in {"sent", "calling"} => timer[i] > 0
    /\ timer' = [i \in Image |-> Less(timer[i])]
    /\ wait' = [i \in Image |-> Less(wait[i])]
    /\ left' = [i \in Image |-> Less(left[i])]
    /\ keyLeft' = Less(keyLeft)
    /\ leases' = IF keyLeft' = 0 THEN {} ELSE leases
    /\ UNCHANGED <<pc, calls, inflight, answer>>

ImageStep(i) ==
    \/ StartOcr(i) \/ EndOcr(i) \/ EnterLocal(i) \/ Try(i) \/ Answered(i)
    \/ AcquireError(i) \/ Resume(i) \/ EndCall(i) \/ Release(i)

Next ==
    \/ \E i \in Image : ImageStep(i) \/ Eval(i) \/ Lose(i)
    \/ \E d \in Doc : Cancel(d) \/ Crash(d)
    \/ Tick

Spec == Init /\ [][Next]_vars

(* The event loop runs every coroutine that can go on, and time passes.  That
   Redis answers, or that a semaphore is free, is not assumed.             *)
FairSpec ==
    /\ Spec
    /\ \A i \in Image : WF_vars(ImageStep(i))
    /\ WF_vars(Tick)

-----------------------------------------------------------------------------
TypeOK ==
    /\ pc \in [Image -> ImagePc]
    /\ calls \in [Doc -> 0..MaxCaptions]
    /\ wait \in [Image -> 0..AcquireTime]
    /\ timer \in [Image -> Nat]
    /\ inflight \subseteq Image
    /\ answer \in [Image -> {"none", "yes", "no"}]
    /\ leases \subseteq Image
    /\ left \in [Image -> 0..TTL]
    /\ keyLeft \in 0..TTL + 1

(* No more calls of the vision model are under way, over all processes, than
   VISION_GLOBAL_CONCURRENCY (distributed_limit.py, 22-33 and 72-98): a lease
   outlives the call it was taken for, however late its answer came.       *)
Calling == {i \in Image : pc[i] = "calling"}

SlotsRespected == Cardinality(Calling) <= Slots

(* A lease that has time left goes only by its own release: neither the
   cleanup of expired members nor the expiry of the key takes it
   (distributed_limit.py, 26-29).                                          *)
LiveLeaseStays ==
    [][\A i \in Live : i \notin leases' => pc[i] = "release"]_vars

(* What a request knows of its lease, and the lease of the key. *)
LeaseCovers(i) ==
    /\ i \in inflight => pc[i] \in {"sent", "done"} /\ answer[i] = "none"
    /\ answer[i] # "none" => pc[i] = "sent"
    /\ pc[i] = "sent" => timer[i] <= ReplyTime
    /\ answer[i] = "yes" => i \in leases /\ left[i] >= CallTime + timer[i]
    /\ pc[i] = "calling" => i \in leases /\ left[i] > timer[i]
    /\ i \in leases => keyLeft > left[i]

IInv ==
    /\ TypeOK
    /\ Cardinality(leases) <= Slots
    /\ \A i \in Image : LeaseCovers(i)

(* Every image that is begun ends, with a caption or without one, whatever
   Redis, the model and the other documents do (chunker.py, 280-309).      *)
EveryImageEnds ==
    \A i \in Image : pc[i] # "start" ~> pc[i] = "done"

(* A lease that its request has left behind, after a crash, a cancellation
   during the acquire or a lost answer, is gone in the end
   (distributed_limit.py, 74).                                             *)
LeakedSlotReturns ==
    \A i \in Image : i \in leases /\ pc[i] = "done" ~> i \notin leases
=============================================================================
