---------------------------- MODULE AnswerStream ----------------------------
(***************************************************************************)
(* One streamed answer: the worker thread of stream_rag_answer that runs   *)
(* run_rag_answer (app/services/rag_service.py), the bounded queue between *)
(* the thread and the generator behind the response, and the view that     *)
(* shows the answer while it comes (frontend/src/views/ChatView.vue).      *)
(*                                                                         *)
(* A text is a sequence of pieces: "cite" a valid citation, "bad" one of a *)
(* source that does not exist.  Retrieval and the model are choices.       *)
(***************************************************************************)
EXTENDS Integers, SequencesExt

CONSTANTS
    QueueSize,  \* queue.Queue(maxsize=100)
    MaxTokens   \* bound on the tokens the model sends

(* rag_service.py, 326. *)
ASSUME AnswerAssumption == QueueSize \in Nat \ {0} /\ MaxTokens \in Nat

VARIABLES
    worker,   \* where the thread is
    event,    \* the event it is emitting
    chunks,   \* tokens of the model so far
    answer,   \* the answer it is about to store
    stored,   \* the last row: nothing, the question, or the answer to it
    queue,    \* the bounded queue
    stopped,  \* set when the generator is closed
    gen,      \* where the generator is
    hand,     \* the event it has taken
    view,     \* what ChatView shows of the request
    target,   \* the text to show ...
    content,  \* ... and the text shown
    final,    \* the final answer the view has received
    cause     \* why an answer is degraded, or a request has no answer (history)

thread   == <<worker, event, chunks, answer, stored, cause>>
response == <<gen, hand>>
shown    == <<view, target, content, final>>
streamVars == <<thread, queue, stopped, response, shown>>

-----------------------------------------------------------------------------
NoAnswer == [text |-> <<>>, degraded |-> FALSE]
Question == [text |-> <<"question">>, degraded |-> FALSE]
Insufficient == [text |-> <<"insufficient">>, degraded |-> FALSE]
Degraded == [text |-> <<"excerpt">>, degraded |-> TRUE]

Token(t) == [name |-> "token", data |-> <<t>>]
Final == [name |-> "final", data |-> answer]
Error == [name |-> "error", data |-> <<>>]
Done  == [name |-> "done", data |-> <<>>]

Answers == {Insufficient, Degraded} \cup
           {[text |-> t, degraded |-> FALSE] : t \in UNION {[1 .. n -> {"cite"}] : n \in 1 .. MaxTokens}}

StreamInit ==
    /\ worker = "none" /\ event = Done /\ chunks = <<>> /\ answer = NoAnswer
    /\ stored = NoAnswer
    /\ queue = <<>> /\ stopped = FALSE
    /\ gen = "none" /\ hand = Done
    /\ view = "closed" /\ target = <<>> /\ content = <<>> /\ final = NoAnswer
    /\ cause = "none"

(* The first read of the response starts the generator, which starts the
   thread.                                                                 *)
Open ==
    /\ worker = "none" /\ view = "closed"
    /\ worker' = "ask" /\ gen' = "get" /\ view' = "reading"
    /\ UNCHANGED <<event, chunks, answer, stored, cause, queue, stopped, hand, target, content, final>>

-----------------------------------------------------------------------------
(* run_rag_answer, as far as the stream can tell.                          *)
Emit(e) == worker' = "check" /\ event' = e

(* Access is checked and the question committed, or the request refused.   *)
Ask ==
    /\ worker = "ask"
    /\ \/ stored' = Question /\ worker' = "retrieve" /\ UNCHANGED <<event, cause>>
       \/ Emit(Error) /\ cause' = "refused" /\ UNCHANGED stored
    /\ UNCHANGED <<chunks, answer, queue, stopped, response, shown>>

(* Retrieval finds records, finds none, or fails with 503. *)
Retrieve ==
    /\ worker = "retrieve"
    /\ \/ worker' = "generate" /\ UNCHANGED <<event, answer, cause>>
       \/ worker' = "persist" /\ answer' = Insufficient /\ UNCHANGED <<event, cause>>
       \/ Emit(Error) /\ cause' = "retrieval" /\ UNCHANGED answer
    /\ UNCHANGED <<chunks, stored, queue, stopped, response, shown>>

GenerateToken ==
    /\ worker = "generate" /\ Len(chunks) < MaxTokens
    /\ \E t \in {"cite", "bad"} : chunks' = Append(chunks, t) /\ Emit(Token(t))
    /\ UNCHANGED <<answer, stored, cause, queue, stopped, response, shown>>

(* Citations of sources that do not exist are cut out; an answer left
   without any is no answer.  What is kept is all valid citations.         *)
Cleaned == [i \in 1 .. Cardinality({j \in 1 .. Len(chunks) : chunks[j] # "bad"}) |-> "cite"]

Fallback(why) == answer' = Degraded /\ cause' = why /\ worker' = "persist" /\ chunks' = <<>>

GenerateEnd ==
    /\ worker = "generate"
    /\ \/ /\ Cleaned # <<>>
          /\ answer' = [text |-> Cleaned, degraded |-> FALSE]
          /\ worker' = "persist" /\ chunks' = <<>> /\ UNCHANGED cause
       \/ Cleaned = <<>> /\ Fallback("citations")
       \/ Fallback("model")
    /\ UNCHANGED <<event, stored, queue, stopped, response, shown>>

\* Mutant: the answer is sent before it is committed.
PersistLater ==
    /\ worker = "persist"
    /\ \/ Emit(Final) /\ UNCHANGED <<stored, cause>>
       \/ Emit(Error) /\ cause' = "database" /\ UNCHANGED stored
    /\ answer' = NoAnswer
    /\ UNCHANGED <<chunks, queue, stopped, response, shown>>

(* The commit, or what comes after it, may fail. *)
Persist ==
    /\ worker = "persist"
    /\ \/ stored' = answer /\ Emit(Final) /\ UNCHANGED cause
       \/ Emit(Error) /\ cause' = "database" /\ stored' \in {stored, answer}
    /\ answer' = NoAnswer
    /\ UNCHANGED <<chunks, queue, stopped, response, shown>>

-----------------------------------------------------------------------------
(* emit: put into the queue until there is room, unless stopped. *)
\* Mutant: nothing follows the final answer.
AfterEmitNoDone ==
    CASE event.name = "token" -> worker' = "generate" /\ event' = Done
      [] event.name = "error" -> Emit(Done)
      [] OTHER                -> worker' = "ended" /\ event' = Done

AfterEmit ==
    CASE event.name = "token" -> worker' = "generate" /\ event' = Done
      [] event.name = "done"  -> worker' = "ended" /\ UNCHANGED event
      [] OTHER                -> Emit(Done)

\* Mutant: a disconnect ends the thread wherever it is.
DisconnectedEnds == worker' = "ended" /\ cause' = "disconnect" /\ UNCHANGED <<event, answer, chunks>>

(* _ClientDisconnected: inside generation it is one more failure of the
   model, later it skips what is left to send.                             *)
Disconnected ==
    CASE event.name = "token" -> Fallback("disconnect") /\ event' = Done
      [] event.name = "done"  -> worker' = "ended" /\ UNCHANGED <<event, answer, chunks, cause>>
      [] OTHER                -> Emit(Done) /\ UNCHANGED <<answer, chunks, cause>>

Check ==
    /\ worker = "check"
    /\ IF stopped THEN Disconnected ELSE worker' = "put" /\ UNCHANGED <<event, answer, chunks, cause>>
    /\ UNCHANGED <<stored, queue, stopped, response, shown>>

Room == Len(queue) < QueueSize

\* Mutant: the put waits for room and no longer looks at stopped.
PutBlocks ==
    /\ worker = "put" /\ Room
    /\ queue' = Append(queue, event) /\ AfterEmit
    /\ UNCHANGED <<chunks, answer, stored, cause, stopped, response, shown>>

Put ==
    /\ worker = "put"
    /\ IF Room THEN queue' = Append(queue, event) /\ AfterEmit
       ELSE worker' = "check" /\ UNCHANGED <<event, queue>>
    /\ UNCHANGED <<chunks, answer, stored, cause, stopped, response, shown>>

-----------------------------------------------------------------------------
(* The generator takes an event, and is closed at its yield when the client
   has gone; a get that waits is not interrupted.                          *)
Get ==
    /\ gen = "get" /\ queue # <<>>
    /\ hand' = Head(queue) /\ queue' = Tail(queue)
    /\ gen' = "yield"
    /\ UNCHANGED <<thread, stopped, shown>>

Close ==
    /\ gen = "yield" /\ view \notin {"reading", "settling"}
    /\ gen' = "closed" /\ stopped' = TRUE /\ hand' = Done
    /\ UNCHANGED <<thread, queue, shown>>

(* ChatView: a token extends the target, the final answer replaces it, and
   an error ends the request and cancels the reader.                       *)
SetFinal(text) ==
    /\ target' = text
    /\ content' = IF IsPrefix(content, text) THEN content ELSE <<>>

(* An error message takes the place of what was shown. *)
GiveUp(v) == view' = v /\ target' = <<>> /\ content' = <<>> /\ final' = NoAnswer

OnEvent(e) ==
    \/ e.name = "token" /\ target' = target \o e.data /\ UNCHANGED <<view, content, final>>
    \/ e.name = "final" /\ SetFinal(e.data.text) /\ final' = e.data /\ UNCHANGED view
    \/ e.name = "error" /\ GiveUp("failed")
    \/ e.name = "done" /\ UNCHANGED shown

Deliver ==
    /\ gen = "yield" /\ view = "reading"
    /\ IF hand.name = "done"
       THEN gen' = "closed" /\ stopped' = TRUE /\ view' = "settling" /\ UNCHANGED <<target, content, final>>
       ELSE gen' = "get" /\ OnEvent(hand) /\ UNCHANGED stopped
    /\ hand' = Done
    /\ UNCHANGED <<thread, queue>>

(* createMessageStreamer: an animation frame shows a piece more. *)
Tick ==
    /\ view \in {"reading", "settling"} /\ Len(content) < Len(target)
    /\ content' = SubSeq(target, 1, Len(content) + 1)
    /\ UNCHANGED <<thread, queue, stopped, response, view, target, final>>

Settle ==
    /\ view = "settling" /\ Len(content) >= Len(target)
    /\ IF final = NoAnswer THEN GiveUp("failed")
       ELSE view' = "shown" /\ UNCHANGED <<target, content, final>>
    /\ UNCHANGED <<thread, queue, stopped, response>>

(* The page is closed, or the network breaks. *)
Leave ==
    /\ view = "reading"
    /\ GiveUp("gone") \/ GiveUp("failed")
    /\ UNCHANGED <<thread, queue, stopped, response>>

(* The server process dies: the response breaks off, the thread is a daemon. *)
Crash ==
    /\ worker \notin {"none", "ended"}
    /\ worker' = "ended" /\ cause' = "crash"
    /\ gen' = "closed" /\ queue' = <<>>
    /\ IF view = "reading" THEN GiveUp("failed") ELSE UNCHANGED shown
    /\ UNCHANGED <<event, chunks, answer, stored, stopped, hand>>

Work == Ask \/ Retrieve \/ GenerateToken \/ GenerateEnd \/ Persist \/ Check \/ Put
Respond == Get \/ Close \/ Deliver
Show == Tick \/ Settle

StreamNext == Open \/ Work \/ Respond \/ Show \/ Leave \/ Crash

(* The thread, the response and the page's frames go on. *)
StreamFairness == WF_streamVars(Work) /\ WF_streamVars(Respond) /\ WF_streamVars(Show)

StreamSpec == StreamInit /\ [][StreamNext]_streamVars /\ StreamFairness

-----------------------------------------------------------------------------
(* The answer a user is shown in the end is the one in the table, text and
   degradation, though other text was shown before it came.                *)
ShownIsStored ==
    /\ final # NoAnswer => stored = final
    /\ view = "shown" => content = final.text

(* A question that retrieval has served is answered in the table, whether
   or not anybody waits for the answer.                                    *)
AnswerIsKept ==
    (worker = "generate") ~> (stored \in Answers \/ cause \in {"database", "crash"})

(* The thread ends, also when nobody empties its queue. *)
ThreadEnds == (worker # "none") ~> (worker = "ended")

(* Whoever stays sees the answer or an error. *)
ReaderIsAnswered == (view = "reading") ~> (view \in {"shown", "failed", "gone"})
=============================================================================
