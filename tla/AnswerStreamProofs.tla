------------------------ MODULE AnswerStreamProofs ------------------------
(***************************************************************************)
(* The safety of a streamed answer for any size of the queue and any       *)
(* number of tokens: the user is shown what is stored, and a thread that   *)
(* has answered leaves an answer or the reason why there is none.          *)
(***************************************************************************)
EXTENDS AnswerStream, SequenceTheorems, FiniteSetTheorems, TLAPS

-----------------------------------------------------------------------------
(* The state of a stream. *)
Piece == {"question", "insufficient", "excerpt", "cite", "bad"}
Text  == Seq(Piece)
Row   == [text : Text, degraded : BOOLEAN]

TokenEvent == [name : {"token"}, data : Text]
FinalEvent == [name : {"final"}, data : Row]
OtherEvent == [name : {"error", "done"}, data : {<<>>}]
Event == TokenEvent \cup FinalEvent \cup OtherEvent

ThreadTypeOK ==
    /\ worker \in {"none", "ask", "retrieve", "generate", "persist", "check", "put", "ended"}
    /\ event \in Event
    /\ chunks \in Seq({"cite", "bad"}) /\ Len(chunks) <= MaxTokens
    /\ worker = "persist" => answer \in Answers
    /\ stored \in Row
    /\ cause \in {"none", "refused", "retrieval", "citations", "model", "disconnect", "database", "crash"}

ReaderTypeOK ==
    /\ queue \in Seq(Event) /\ Len(queue) <= QueueSize
    /\ stopped \in BOOLEAN
    /\ gen \in {"none", "get", "yield", "closed"} /\ hand \in Event
    /\ view \in {"closed", "reading", "settling", "shown", "failed", "gone"}
    /\ target \in Text /\ content \in Text /\ final \in Row

StreamTypeOK == ThreadTypeOK /\ ReaderTypeOK

-----------------------------------------------------------------------------
(* The inductive invariant. *)

(* The thread has not decided on an answer yet. *)
Answering ==
    \/ worker \in {"none", "ask", "retrieve", "generate", "persist"}
    \/ worker \in {"check", "put"} /\ event.name = "token"

(* Where an event may be on its way from the thread to the view. *)
Queued == {queue[i] : i \in 1 .. Len(queue)}
OnTheWay == {event, hand} \cup Queued

(* Every final answer on its way is the stored row, which stays as it is:
   while the thread may still change it there is none.                     *)
Announced ==
    /\ \A e \in OnTheWay : e.name = "final" => e.data = stored /\ ~Answering
    /\ final # NoAnswer => final = stored /\ ~Answering

(* No token comes after the final answer. *)
Ordered ==
    /\ \A i, j \in 1 .. Len(queue) : i < j /\ queue[i].name = "final" => queue[j].name # "token"
    /\ hand.name = "final" \/ final # NoAnswer => \A e \in Queued : e.name # "token"
    /\ final # NoAnswer => hand.name # "token"

(* The view types a prefix of its target, which is the final answer from
   the moment it has come.                                                 *)
Typed ==
    /\ IsPrefix(content, target)
    /\ view \in {"reading", "settling"} /\ final # NoAnswer => target = final.text
    /\ view = "shown" => content = final.text

(* The reasons for which a question has no answer. *)
Unanswered == {"refused", "retrieval", "database", "crash"}
Accounted == Answering \/ stored \in Answers \/ cause \in Unanswered

IInv == StreamTypeOK /\ Announced /\ Ordered /\ Typed /\ Accounted

(* A thread that has ended leaves an answer in the table, or one of the
   four reasons.                                                           *)
EndsAnswered == worker = "ended" => stored \in Answers \/ cause \in Unanswered

-----------------------------------------------------------------------------
(* Rows and events. *)
LEMMA Rows ==
    /\ NoAnswer \in Row /\ Question \in Row /\ Insufficient \in Row /\ Degraded \in Row
    /\ Insufficient \in Answers /\ Degraded \in Answers
BY DEF NoAnswer, Question, Insufficient, Degraded, Row, Text, Piece, Answers

LEMMA AnswersAreRows == Answers \subseteq Row
<1>1. ASSUME NEW n \in 1 .. MaxTokens, NEW t \in [1 .. n -> {"cite"}]
      PROVE  t \in Text
  <2>1. n \in Nat
    BY AnswerAssumption
  <2> QED  BY <2>1 DEF Text, Piece
<1>2. ASSUME NEW a \in Answers PROVE a \in Row
  <2>1. CASE a \in {Insufficient, Degraded}
    BY <2>1, Rows
  <2>2. CASE a \notin {Insufficient, Degraded}
    <3>1. PICK t \in UNION {[1 .. n -> {"cite"}] : n \in 1 .. MaxTokens} : a = [text |-> t, degraded |-> FALSE]
      BY <2>2 DEF Answers
    <3>2. t \in Text
      BY <1>1
    <3> QED  BY <3>1, <3>2 DEF Row
  <2> QED  BY <2>1, <2>2
<1> QED  BY <1>2

LEMMA Events ==
    /\ Done \in Event /\ Done.name = "done"
    /\ Error \in Event /\ Error.name = "error"
    /\ \A t \in Piece : Token(t) \in Event /\ Token(t).name = "token"
    /\ answer \in Row => Final \in Event
    /\ Final.name = "final" /\ Final.data = answer
BY DEF Done, Error, Token, Final, Event, TokenEvent, FinalEvent, OtherEvent, Text

(* What an event may be. *)
LEMMA EventCases ==
    ASSUME NEW e \in Event
    PROVE  /\ e.name \in {"token", "final", "error", "done"}
           /\ e.name = "token" => e.data \in Text
           /\ e.name = "final" => e.data \in Row
BY DEF Event, TokenEvent, FinalEvent, OtherEvent

(* An answer with a citation left is an answer. *)
LEMMA CleanedIsAnswer ==
    ASSUME ThreadTypeOK, Cleaned # <<>>
    PROVE  [text |-> Cleaned, degraded |-> FALSE] \in Answers
<1> DEFINE Kept == {j \in 1 .. Len(chunks) : chunks[j] # "bad"}
           n == Cardinality(Kept)
<1>1. Len(chunks) \in Nat /\ Len(chunks) <= MaxTokens /\ MaxTokens \in Nat
  BY AnswerAssumption DEF ThreadTypeOK
<1>2. IsFiniteSet(1 .. Len(chunks)) /\ Cardinality(1 .. Len(chunks)) = Len(chunks)
  <2>1. 1 \in Int /\ Len(chunks) \in Int
    BY <1>1
  <2>2. /\ IsFiniteSet(1 .. Len(chunks))
        /\ Cardinality(1 .. Len(chunks)) = IF 1 > Len(chunks) THEN 0 ELSE Len(chunks) - 1 + 1
    BY <2>1, FS_Interval
  <2> QED  BY <1>1, <2>2
<1>3. Kept \in SUBSET (1 .. Len(chunks))
  OBVIOUS
<1>4. n <= Len(chunks) /\ n \in Nat
  BY <1>2, <1>3, FS_Subset, FS_CardinalityType
<1>5. n # 0
  <2> SUFFICES ASSUME n = 0 PROVE FALSE
    OBVIOUS
  <2>1. Cleaned \in [1 .. 0 -> {"cite"}]
    BY DEF Cleaned
  <2>2. Cleaned \in Seq({"cite"}) /\ Len(Cleaned) = 0
    BY <2>1
  <2> QED  BY <2>2, EmptySeq
<1>6. n \in 1 .. MaxTokens
  BY <1>1, <1>4, <1>5
<1>7. Cleaned \in [1 .. n -> {"cite"}]
  BY DEF Cleaned
<1> HIDE DEF n
<1> QED  BY <1>6, <1>7 DEF Answers

(* Typing goes on towards a target that grows. *)
LEMMA PrefixGrows ==
    ASSUME NEW s \in Text, NEW t \in Text, NEW u \in Text, IsPrefix(s, t)
    PROVE  t \o u \in Text /\ IsPrefix(s, t \o u)
BY DEF IsPrefix, Text

LEMMA PrefixShows ==
    ASSUME NEW t \in Text, NEW n \in 0 .. Len(t)
    PROVE  SubSeq(t, 1, n) \in Text /\ IsPrefix(SubSeq(t, 1, n), t)
BY DEF IsPrefix, Text

LEMMA PrefixIsAll ==
    ASSUME NEW s \in Text, NEW t \in Text, IsPrefix(s, t), Len(s) >= Len(t)
    PROVE  s = t
BY DEF IsPrefix, Text

LEMMA PrefixOfNothing == <<>> \in Text /\ \A t \in Text : IsPrefix(<<>>, t)
BY DEF IsPrefix, Text

-----------------------------------------------------------------------------
LEMMA InitIsSafe == StreamInit => IInv
<1> SUFFICES ASSUME StreamInit PROVE IInv
  OBVIOUS
<1>1. StreamTypeOK
  <2>1. ThreadTypeOK
    BY Rows, Events, AnswerAssumption DEF StreamInit, ThreadTypeOK
  <2>2. ReaderTypeOK
    <3>1. queue \in Seq(Event) /\ Len(queue) <= QueueSize
      BY AnswerAssumption DEF StreamInit
    <3> QED  BY <3>1, Rows, Events, PrefixOfNothing DEF StreamInit, ReaderTypeOK
  <2> QED  BY <2>1, <2>2 DEF StreamTypeOK
<1>2. Announced /\ Ordered /\ Accounted
  <2>1. Queued = {}
    BY DEF StreamInit, Queued
  <2>2. Answering /\ OnTheWay = {Done} /\ final = NoAnswer
    BY <2>1 DEF StreamInit, Answering, OnTheWay
  <2>3. hand.name = "done"
    BY Events DEF StreamInit
  <2>4. Ordered
    BY <2>1, <2>2, <2>3 DEF StreamInit, Ordered
  <2> QED  BY <2>2, <2>4, Events DEF Announced, Accounted
<1>3. Typed
  BY PrefixOfNothing, Zenon DEF StreamInit, Typed
<1> QED  BY <1>1, <1>2, <1>3 DEF IInv

(* A step of the thread before it puts its event into the queue. *)
LEMMA ThreadStep ==
    ASSUME IInv, UNCHANGED <<queue, stopped, response, shown>>, ThreadTypeOK',
           ~Answering => stored' = stored /\ ~Answering',
           event'.name = "final" => event'.data = stored' /\ ~Answering',
           Accounted'
    PROVE  IInv'
<1>1. UNCHANGED <<queue, stopped, gen, hand, view, target, content, final>>
  BY DEF response, shown
<1>2. StreamTypeOK'
  BY <1>1 DEF IInv, StreamTypeOK, ReaderTypeOK
<1>3. Announced'
  BY <1>1 DEF IInv, Announced, OnTheWay, Queued
<1>4. Ordered' /\ Typed'
  BY <1>1 DEF IInv, Ordered, Typed, Queued
<1> QED  BY <1>2, <1>3, <1>4 DEF IInv

LEMMA AskIsSafe == IInv /\ Ask => IInv'
<1> SUFFICES ASSUME IInv, Ask PROVE IInv'
  OBVIOUS
<1>1. ThreadTypeOK'
  BY Rows, Events DEF IInv, StreamTypeOK, ThreadTypeOK, Ask, Emit
<1>2. Answering /\ (Answering' \/ cause' \in Unanswered)
  BY DEF Ask, Answering, Emit, Unanswered
<1>3. event'.name # "final"
  BY <1>2, Events DEF Ask, Emit, IInv, Announced, OnTheWay
<1> QED  BY <1>1, <1>2, <1>3, ThreadStep DEF Ask, Accounted

LEMMA RetrieveIsSafe == IInv /\ Retrieve => IInv'
<1> SUFFICES ASSUME IInv, Retrieve PROVE IInv'
  OBVIOUS
<1>1. ThreadTypeOK'
  BY Rows, Events DEF IInv, StreamTypeOK, ThreadTypeOK, Retrieve, Emit
<1>2. Answering /\ (Answering' \/ cause' \in Unanswered)
  BY DEF Retrieve, Answering, Emit, Unanswered
<1>3. event'.name # "final"
  BY <1>2, Events DEF Retrieve, Emit, IInv, Announced, OnTheWay
<1> QED  BY <1>1, <1>2, <1>3, ThreadStep DEF Retrieve, Accounted

LEMMA GenerateTokenIsSafe == IInv /\ GenerateToken => IInv'
<1> SUFFICES ASSUME IInv, GenerateToken PROVE IInv'
  OBVIOUS
<1>1. PICK t \in {"cite", "bad"} : chunks' = Append(chunks, t) /\ Emit(Token(t))
  BY DEF GenerateToken
<1>2. Token(t) \in Event /\ event' = Token(t) /\ event'.name = "token" /\ worker' = "check"
  BY <1>1, Events DEF Emit, Piece
<1>3. chunks' \in Seq({"cite", "bad"}) /\ Len(chunks') <= MaxTokens
  BY <1>1, AnswerAssumption DEF GenerateToken, IInv, StreamTypeOK, ThreadTypeOK
<1>4. ThreadTypeOK'
  BY <1>2, <1>3 DEF IInv, StreamTypeOK, ThreadTypeOK, GenerateToken
<1>5. Answering /\ Answering'
  BY <1>2 DEF GenerateToken, Answering
<1> QED  BY <1>2, <1>4, <1>5, ThreadStep DEF GenerateToken, Accounted

LEMMA GenerateEndIsSafe == IInv /\ GenerateEnd => IInv'
<1> SUFFICES ASSUME IInv, GenerateEnd PROVE IInv'
  OBVIOUS
<1>1. worker' = "persist" /\ chunks' = <<>> /\ event' = event /\ stored' = stored
  BY DEF GenerateEnd, Fallback
<1>2. answer' \in Answers
  BY CleanedIsAnswer, Rows DEF GenerateEnd, Fallback, IInv, StreamTypeOK
<1>3. ThreadTypeOK'
  BY <1>1, <1>2, AnswerAssumption DEF IInv, StreamTypeOK, ThreadTypeOK, GenerateEnd, Fallback
<1>4. Answering /\ Answering'
  BY <1>1 DEF GenerateEnd, Answering
<1>5. event'.name # "final"
  BY <1>1, <1>4 DEF IInv, Announced, OnTheWay
<1> QED  BY <1>3, <1>4, <1>5, ThreadStep DEF GenerateEnd, Accounted

LEMMA PersistIsSafe == IInv /\ Persist => IInv'
<1> SUFFICES ASSUME IInv, Persist PROVE IInv'
  OBVIOUS
<1>1. answer \in Answers /\ answer \in Row /\ stored \in Row
  BY AnswersAreRows DEF Persist, IInv, StreamTypeOK, ThreadTypeOK
<1>2. /\ worker' = "check"
      /\ \/ event' = Final /\ stored' = answer /\ cause' = cause
         \/ event' = Error /\ stored' \in {stored, answer} /\ cause' = "database"
  BY DEF Persist, Emit
<1>3. event' \in Event /\ event'.name # "token" /\ (event'.name = "final" => event'.data = stored')
  BY <1>1, <1>2, Events
<1>4. ThreadTypeOK'
  BY <1>1, <1>2, <1>3 DEF IInv, StreamTypeOK, ThreadTypeOK, Persist
<1>5. Answering /\ ~Answering'
  BY <1>2, <1>3 DEF Persist, Answering
<1>6. Accounted'
  BY <1>1, <1>2 DEF Accounted, Unanswered
<1> QED  BY <1>3, <1>4, <1>5, <1>6, ThreadStep DEF Persist

LEMMA CheckIsSafe == IInv /\ Check => IInv'
<1> SUFFICES ASSUME IInv, Check PROVE IInv'
  OBVIOUS
<1>1. event \in Event /\ event.name \in {"token", "final", "error", "done"}
  BY EventCases DEF IInv, StreamTypeOK, ThreadTypeOK
<1>2. \/ worker' = "put" /\ UNCHANGED <<event, answer, chunks, cause>>
      \/ /\ event.name = "token"
         /\ worker' = "persist" /\ answer' = Degraded /\ chunks' = <<>>
         /\ cause' = "disconnect" /\ event' = Done
      \/ event.name = "done" /\ worker' = "ended" /\ UNCHANGED <<event, answer, chunks, cause>>
      \/ /\ event.name # "token"
         /\ worker' = "check" /\ event' = Done /\ UNCHANGED <<answer, chunks, cause>>
  BY <1>1 DEF Check, Disconnected, Fallback, Emit
<1>3. stored' = stored
  BY DEF Check
<1>4. ThreadTypeOK'
  <2>1. chunks' \in Seq({"cite", "bad"}) /\ Len(chunks') <= MaxTokens
    <3>1. CASE chunks' = <<>>
      BY <3>1, AnswerAssumption
    <3>2. CASE chunks' = chunks
      BY <3>2 DEF IInv, StreamTypeOK, ThreadTypeOK
    <3> QED  BY <1>2, <3>1, <3>2
  <2>2. event' \in Event
    BY <1>1, <1>2, Events
  <2>3. worker' = "persist" => answer' \in Answers
    BY <1>2, Rows
  <2>4. cause' \in {"none", "refused", "retrieval", "citations", "model", "disconnect", "database", "crash"}
    BY <1>2 DEF IInv, StreamTypeOK, ThreadTypeOK
  <2>5. worker' \in {"persist", "check", "put", "ended"}
    BY <1>2
  <2> QED  BY <1>3, <2>1, <2>2, <2>3, <2>4, <2>5 DEF IInv, StreamTypeOK, ThreadTypeOK
<1>5. Answering <=> Answering'
  BY <1>2, Events DEF Check, Answering
<1>6. event'.name = "final" => event' = event
  BY <1>2, Events
<1>7. event'.name = "final" => event'.data = stored' /\ ~Answering'
  BY <1>3, <1>5, <1>6 DEF IInv, Announced, OnTheWay
<1>8. Accounted'
  BY <1>2, <1>3, <1>5 DEF IInv, Accounted, Answering
<1> QED  BY <1>3, <1>4, <1>5, <1>7, <1>8, ThreadStep DEF Check

(* A put finds room and goes on, or is tried again. *)
LEMMA PutIsSafe == IInv /\ Put => IInv'
<1> SUFFICES ASSUME IInv, Put PROVE IInv'
  OBVIOUS
<1>1. event \in Event /\ event.name \in {"token", "final", "error", "done"}
  BY EventCases DEF IInv, StreamTypeOK, ThreadTypeOK
<1>2. UNCHANGED <<chunks, answer, stored, cause, stopped, gen, hand, view, target, content, final>>
  BY DEF Put, response, shown
<1>3. CASE Room
  <2>1. queue' = Append(queue, event) /\ AfterEmit
    BY <1>3 DEF Put
  <2>2. \/ event.name = "token" /\ worker' = "generate" /\ event' = Done
        \/ event.name = "done" /\ worker' = "ended" /\ event' = event
        \/ event.name \in {"final", "error"} /\ worker' = "check" /\ event' = Done
    BY <1>1, <2>1 DEF AfterEmit, Emit
  <2>3. Answering <=> Answering'
    BY <2>2, Events DEF Put, Answering
  <2>4. queue \in Seq(Event)
    BY DEF IInv, StreamTypeOK, ReaderTypeOK
  <2>5. /\ queue' \in Seq(Event) /\ Len(queue') = Len(queue) + 1
        /\ \A i \in 1 .. Len(queue') : queue'[i] = IF i <= Len(queue) THEN queue[i] ELSE event
    BY <1>1, <2>1, <2>4
  <2>6. Queued' = Queued \cup {event}
    BY <2>4, <2>5 DEF Queued
  <2>7. StreamTypeOK'
    <3>1. Len(queue') <= QueueSize
      BY <1>3, <2>4, <2>5, AnswerAssumption DEF Room
    <3>2. event' \in Event
      BY <1>1, <2>2, Events
    <3> QED  BY <1>2, <2>2, <2>5, <3>1, <3>2 DEF IInv, StreamTypeOK, ThreadTypeOK, ReaderTypeOK
  <2>8. Announced'
    <3>1. \A e \in OnTheWay' : e = Done \/ e \in OnTheWay
      BY <1>2, <2>2, <2>6 DEF OnTheWay
    <3> QED  BY <1>2, <2>3, <3>1, Events DEF IInv, Announced
  <2>9. Ordered'
    <3>1. event.name = "token" => /\ \A i \in 1 .. Len(queue) : queue[i].name # "final"
                                  /\ hand.name # "final" /\ final = NoAnswer
      BY DEF IInv, Announced, OnTheWay, Queued, Put, Answering
    <3>2. ASSUME NEW i \in 1 .. Len(queue'), NEW j \in 1 .. Len(queue'),
                 i < j, queue'[i].name = "final"
          PROVE  queue'[j].name # "token"
      <4>1. i \in 1 .. Len(queue) /\ queue'[i] = queue[i]
        BY <2>4, <2>5, <3>2
      <4>2. CASE j \in 1 .. Len(queue)
        BY <2>4, <2>5, <3>2, <4>1, <4>2 DEF IInv, Ordered
      <4>3. CASE j \notin 1 .. Len(queue)
        BY <2>4, <2>5, <3>1, <3>2, <4>1, <4>3
      <4> QED  BY <4>2, <4>3
    <3>3. hand'.name = "final" \/ final' # NoAnswer => \A e \in Queued' : e.name # "token"
      BY <1>2, <2>6, <3>1 DEF IInv, Ordered
    <3> QED  BY <1>2, <3>2, <3>3 DEF IInv, Ordered
  <2>10. Typed'
    BY <1>2 DEF IInv, Typed
  <2>11. Accounted'
    BY <1>2, <2>3 DEF IInv, Accounted
  <2> QED  BY <2>7, <2>8, <2>9, <2>10, <2>11 DEF IInv
<1>4. CASE ~Room
  <2>1. worker' = "check" /\ event' = event /\ queue' = queue
    BY <1>4 DEF Put
  <2>2. ThreadTypeOK' /\ (Answering <=> Answering')
    BY <1>2, <2>1 DEF IInv, StreamTypeOK, ThreadTypeOK, Answering, Put
  <2>3. Accounted'
    BY <1>2, <2>2 DEF IInv, Accounted
  <2>4. event'.name = "final" => event'.data = stored' /\ ~Answering'
    BY <1>2, <2>1, <2>2 DEF IInv, Announced, OnTheWay
  <2> QED  BY <1>2, <2>1, <2>2, <2>3, <2>4, ThreadStep DEF response, shown
<1> QED  BY <1>3, <1>4

-----------------------------------------------------------------------------
(* The response and the view. *)
LEMMA OpenIsSafe == IInv /\ Open => IInv'
<1> SUFFICES ASSUME IInv, Open PROVE IInv'
  OBVIOUS
<1>1. StreamTypeOK'
  BY DEF IInv, StreamTypeOK, ThreadTypeOK, ReaderTypeOK, Open
<1>2. Answering /\ Answering'
  BY DEF Open, Answering
<1>3. Announced' /\ Ordered' /\ Accounted'
  BY <1>2 DEF IInv, Announced, Ordered, Accounted, OnTheWay, Queued, Open
<1>4. Typed'
  BY <1>2 DEF IInv, Announced, Typed, Open
<1> QED  BY <1>1, <1>3, <1>4 DEF IInv

LEMMA GetIsSafe == IInv /\ Get => IInv'
<1> SUFFICES ASSUME IInv, Get PROVE IInv'
  OBVIOUS
<1>1. UNCHANGED <<worker, event, chunks, answer, stored, cause, stopped, view, target, content, final>>
  BY DEF Get, thread, shown
<1>2. queue \in Seq(Event) /\ queue # <<>>
  BY DEF Get, IInv, StreamTypeOK, ReaderTypeOK
<1>3. /\ hand' = queue[1] /\ hand' \in Event /\ queue' \in Seq(Event)
      /\ Len(queue) \in Nat \ {0} /\ Len(queue') = Len(queue) - 1
      /\ \A i \in 1 .. Len(queue') : queue'[i] = queue[i + 1]
  BY <1>2, HeadTailProperties, EmptySeq DEF Get
<1>4. hand' \in Queued /\ Queued' \subseteq Queued
  BY <1>3 DEF Queued
<1>5. StreamTypeOK'
  BY <1>1, <1>3, AnswerAssumption DEF IInv, StreamTypeOK, ThreadTypeOK, ReaderTypeOK, Get
<1>6. Announced'
  BY <1>1, <1>4 DEF IInv, Announced, OnTheWay, Answering
<1>7. Ordered'
  <2>1. ASSUME NEW i \in 1 .. Len(queue'), NEW j \in 1 .. Len(queue'),
               i < j, queue'[i].name = "final"
        PROVE  queue'[j].name # "token"
    <3>1. i + 1 \in 1 .. Len(queue) /\ j + 1 \in 1 .. Len(queue) /\ i + 1 < j + 1
      BY <1>3, <2>1
    <3> QED  BY <1>3, <2>1, <3>1 DEF IInv, Ordered
  <2>2. hand'.name = "final" => \A i \in 1 .. Len(queue') : queue'[i].name # "token"
    <3> SUFFICES ASSUME hand'.name = "final", NEW i \in 1 .. Len(queue') PROVE queue'[i].name # "token"
      OBVIOUS
    <3>1. 1 \in 1 .. Len(queue) /\ i + 1 \in 1 .. Len(queue) /\ 1 < i + 1
      BY <1>3
    <3> QED  BY <1>3, <3>1 DEF IInv, Ordered
  <2>3. final' # NoAnswer => hand'.name # "token" /\ \A e \in Queued' : e.name # "token"
    BY <1>1, <1>4 DEF IInv, Ordered
  <2> QED  BY <2>1, <2>2, <2>3 DEF Ordered, Queued
<1>8. Typed' /\ Accounted'
  BY <1>1 DEF IInv, Typed, Accounted, Answering
<1> QED  BY <1>5, <1>6, <1>7, <1>8 DEF IInv

LEMMA CloseIsSafe == IInv /\ Close => IInv'
<1> SUFFICES ASSUME IInv, Close PROVE IInv'
  OBVIOUS
<1>1. /\ UNCHANGED <<worker, event, chunks, answer, stored, cause, queue, view, target, content, final>>
      /\ gen' = "closed" /\ stopped' = TRUE /\ hand' = Done
  BY DEF Close, thread, shown
<1>2. StreamTypeOK'
  BY <1>1, Events DEF IInv, StreamTypeOK, ThreadTypeOK, ReaderTypeOK
<1>3. Announced' /\ Ordered'
  BY <1>1, Events DEF IInv, Announced, Ordered, OnTheWay, Queued, Answering
<1>4. Typed' /\ Accounted'
  BY <1>1 DEF IInv, Typed, Accounted, Answering
<1> QED  BY <1>2, <1>3, <1>4 DEF IInv

(* Steps of the view alone: it gives up or goes on typing. *)
LEMMA ViewStep ==
    ASSUME IInv, UNCHANGED <<thread, queue, stopped, response>>,
           view' \in {"closed", "reading", "settling", "shown", "failed", "gone"},
           target' \in Text, content' \in Text, Typed',
           final' \in {final, NoAnswer}
    PROVE  IInv'
<1>1. UNCHANGED <<worker, event, chunks, answer, stored, cause, queue, stopped, gen, hand>>
  BY DEF thread, response
<1>2. StreamTypeOK'
  BY <1>1, Rows DEF IInv, StreamTypeOK, ThreadTypeOK, ReaderTypeOK
<1>3. Announced' /\ Ordered' /\ Accounted'
  BY <1>1 DEF IInv, Announced, Ordered, OnTheWay, Queued, Answering, Accounted
<1> QED  BY <1>2, <1>3 DEF IInv

LEMMA GivenUp ==
    ASSUME NEW v \in {"failed", "gone"}, GiveUp(v)
    PROVE  /\ view' = v /\ target' = <<>> /\ content' = <<>> /\ final' = NoAnswer
           /\ target' \in Text /\ content' \in Text /\ Typed'
BY PrefixOfNothing DEF GiveUp, Typed

LEMMA LeaveIsSafe == IInv /\ Leave => IInv'
BY GivenUp, ViewStep DEF Leave

LEMMA TickIsSafe == IInv /\ Tick => IInv'
<1> SUFFICES ASSUME IInv, Tick PROVE IInv'
  OBVIOUS
<1>1. target \in Text /\ content \in Text
  BY DEF IInv, StreamTypeOK, ReaderTypeOK
<1>2. Len(content) + 1 \in 0 .. Len(target)
  BY <1>1 DEF Tick, Text
<1>3. content' \in Text /\ IsPrefix(content', target)
  BY <1>1, <1>2, PrefixShows DEF Tick
<1>4. Typed'
  BY <1>3 DEF IInv, Typed, Tick
<1> QED  BY <1>1, <1>3, <1>4, ViewStep DEF Tick, IInv, StreamTypeOK, ReaderTypeOK

(* The animation has caught up: all of the target is shown. *)
LEMMA SettleIsSafe == IInv /\ Settle => IInv'
<1> SUFFICES ASSUME IInv, Settle PROVE IInv'
  OBVIOUS
<1>1. CASE final = NoAnswer
  BY <1>1, GivenUp, ViewStep DEF Settle
<1>2. CASE final # NoAnswer
  <2>1. view' = "shown" /\ UNCHANGED <<target, content, final>>
    BY <1>2 DEF Settle
  <2>2. target \in Text /\ content \in Text
    BY DEF IInv, StreamTypeOK, ReaderTypeOK
  <2>3. content = target /\ target = final.text
    BY <1>2, <2>2, PrefixIsAll DEF IInv, Typed, Settle
  <2>4. Typed'
    BY <2>1, <2>3 DEF IInv, Typed
  <2> QED  BY <2>1, <2>2, <2>4, ViewStep DEF Settle
<1> QED  BY <1>1, <1>2

(* The view takes an event. *)
LEMMA DeliverIsSafe == IInv /\ Deliver => IInv'
<1> SUFFICES ASSUME IInv, Deliver PROVE IInv'
  OBVIOUS
<1>1. /\ UNCHANGED <<worker, event, chunks, answer, stored, cause, queue>>
      /\ hand' = Done /\ gen' \in {"get", "closed"} /\ stopped' \in {stopped, TRUE}
      /\ view = "reading"
  BY DEF Deliver, thread
<1>2. hand \in Event /\ target \in Text /\ content \in Text /\ final \in Row /\ stopped \in BOOLEAN
  BY DEF IInv, StreamTypeOK, ReaderTypeOK
<1>3. ASSUME view' \in {"reading", "settling", "failed"}, target' \in Text, content' \in Text, final' \in Row,
             Typed',
             final' # NoAnswer => final' = stored /\ ~Answering /\ \A e \in Queued : e.name # "token"
      PROVE  IInv'
  <2>1. StreamTypeOK'
    BY <1>1, <1>2, <1>3, Events DEF IInv, StreamTypeOK, ThreadTypeOK, ReaderTypeOK
  <2>2. Announced' /\ Ordered'
    BY <1>1, <1>3, Events DEF IInv, Announced, Ordered, OnTheWay, Queued, Answering
  <2>3. Accounted'
    BY <1>1 DEF IInv, Accounted, Answering
  <2> QED  BY <1>3, <2>1, <2>2, <2>3 DEF IInv
<1>4. final # NoAnswer => final = stored /\ ~Answering /\ \A e \in Queued : e.name # "token"
  BY DEF IInv, Announced, Ordered
<1>5. CASE hand.name = "done"
  <2>1. view' = "settling" /\ UNCHANGED <<target, content, final>>
    BY <1>5 DEF Deliver
  <2>2. Typed'
    BY <1>1, <2>1 DEF IInv, Typed
  <2> QED  BY <1>2, <1>3, <1>4, <2>1, <2>2
<1>6. CASE hand.name = "token"
  <2>1. target' = target \o hand.data /\ UNCHANGED <<view, content, final>>
    BY <1>6 DEF Deliver, OnEvent
  <2>2. target' \in Text /\ IsPrefix(content, target')
    BY <1>2, <1>6, <2>1, EventCases, PrefixGrows DEF IInv, Typed
  <2>3. final = NoAnswer
    BY <1>6 DEF IInv, Ordered
  <2>4. Typed'
    BY <1>1, <2>1, <2>2, <2>3 DEF Typed
  <2> QED  BY <1>1, <1>2, <1>3, <1>4, <2>1, <2>2, <2>4
<1>7. CASE hand.name = "final"
  <2>1. SetFinal(hand.data.text) /\ final' = hand.data /\ view' = view
    BY <1>7 DEF Deliver, OnEvent
  <2>2. hand.data \in Row /\ hand.data.text \in Text
    BY <1>2, <1>7, EventCases DEF Row
  <2>3. target' = hand.data.text /\ content' \in Text /\ IsPrefix(content', target')
    BY <1>2, <2>1, <2>2, PrefixOfNothing DEF SetFinal
  <2>4. Typed'
    BY <1>1, <2>1, <2>3 DEF Typed
  <2>5. hand.data = stored /\ ~Answering /\ \A e \in Queued : e.name # "token"
    BY <1>7 DEF IInv, Announced, Ordered, OnTheWay
  <2> QED  BY <1>1, <1>3, <2>1, <2>2, <2>3, <2>4, <2>5
<1>8. CASE hand.name = "error"
  <2>1. GiveUp("failed")
    BY <1>8 DEF Deliver, OnEvent
  <2> QED  BY <1>3, <2>1, GivenUp, Rows
<1> QED  BY <1>2, <1>5, <1>6, <1>7, <1>8, EventCases

LEMMA CrashIsSafe == IInv /\ Crash => IInv'
<1> SUFFICES ASSUME IInv, Crash PROVE IInv'
  OBVIOUS
<1>1. /\ worker' = "ended" /\ cause' = "crash" /\ gen' = "closed" /\ queue' = <<>>
      /\ UNCHANGED <<event, chunks, answer, stored, stopped, hand>>
      /\ GiveUp("failed") \/ UNCHANGED <<view, target, content, final>>
  BY DEF Crash, shown
<1>2. Queued' = {} /\ queue' \in Seq(Event) /\ Len(queue') <= QueueSize /\ Len(queue') = 0
  BY <1>1, AnswerAssumption DEF Queued
<1>3. /\ view' \in {"closed", "reading", "settling", "shown", "failed", "gone"}
      /\ target' \in Text /\ content' \in Text /\ final' \in Row /\ Typed'
      /\ final' \in {final, NoAnswer}
  BY <1>1, GivenUp, Rows DEF IInv, StreamTypeOK, ReaderTypeOK, Typed
<1>4. StreamTypeOK'
  BY <1>1, <1>2, <1>3 DEF IInv, StreamTypeOK, ThreadTypeOK, ReaderTypeOK
<1>5. ~Answering' /\ Accounted'
  BY <1>1 DEF Answering, Accounted, Unanswered
<1>6. Announced' /\ Ordered'
  BY <1>1, <1>2, <1>3, <1>5 DEF IInv, Announced, Ordered, OnTheWay
<1> QED  BY <1>3, <1>4, <1>5, <1>6 DEF IInv

-----------------------------------------------------------------------------
LEMMA StepIsSafe == IInv /\ [StreamNext]_streamVars => IInv'
<1> SUFFICES ASSUME IInv, [StreamNext]_streamVars PROVE IInv'
  OBVIOUS
<1>1. CASE Open
  BY <1>1, OpenIsSafe
<1>2. CASE Work
  BY <1>2, AskIsSafe, RetrieveIsSafe, GenerateTokenIsSafe, GenerateEndIsSafe,
     PersistIsSafe, CheckIsSafe, PutIsSafe DEF Work
<1>3. CASE Respond
  BY <1>3, GetIsSafe, CloseIsSafe, DeliverIsSafe DEF Respond
<1>4. CASE Show
  BY <1>4, TickIsSafe, SettleIsSafe DEF Show
<1>5. CASE Leave \/ Crash
  BY <1>5, LeaveIsSafe, CrashIsSafe
<1>6. CASE UNCHANGED streamVars
  BY <1>6 DEF streamVars, thread, response, shown, IInv, StreamTypeOK, ThreadTypeOK, ReaderTypeOK,
     Announced, Ordered, Typed, Accounted, OnTheWay, Queued, Answering
<1> QED  BY <1>1, <1>2, <1>3, <1>4, <1>5, <1>6 DEF StreamNext

LEMMA Invariance == StreamSpec => []IInv
<1>1. StreamInit => IInv
  BY InitIsSafe
<1>2. IInv /\ [StreamNext]_streamVars => IInv'
  BY StepIsSafe
<1> QED  BY <1>1, <1>2, PTL DEF StreamSpec

(* The variables of a stream keep their types, and the queue its bound. *)
THEOREM TypesOfStream == StreamSpec => []StreamTypeOK
<1>1. IInv => StreamTypeOK
  BY DEF IInv
<1> QED  BY <1>1, Invariance, PTL

(* The answer a user is shown in the end is the one in the table. *)
THEOREM StoredIsShown == StreamSpec => []ShownIsStored
<1>1. IInv => ShownIsStored
  BY DEF IInv, Announced, Typed, ShownIsStored
<1> QED  BY <1>1, Invariance, PTL

(* No thread ends without an answer in the table or one of four reasons,
   and a disconnected client is none of them.                              *)
THEOREM NoThreadEndsWithoutAnswer == StreamSpec => []EndsAnswered
<1>1. IInv => EndsAnswered
  BY DEF IInv, Accounted, Answering, EndsAnswered
<1> QED  BY <1>1, Invariance, PTL

=============================================================================
