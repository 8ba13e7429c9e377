---------------------------- MODULE Conversation ----------------------------
(***************************************************************************)
(* One private conversation under concurrent questions: its messages and   *)
(* summary in PostgreSQL, the window of recent messages that Redis caches  *)
(* (app/services/short_term_memory.py), the compaction of older messages   *)
(* (app/services/conversation_context.py), the long-term memory drawn from *)
(* them (app/services/memory_service.py), in the order in which            *)
(* run_rag_answer of app/services/rag_service.py uses them, and deletion   *)
(* (app/api/conversation.py, app/api/memory.py).                           *)
(*                                                                         *)
(* A message is its id, its position in msgs.  A request's two writes of a *)
(* message allot the id and commit it in one step.  The text of a summary  *)
(* is the set of messages it was made from.                                *)
(***************************************************************************)
EXTENDS Integers, SequencesExt

CONSTANTS
    Slot,         \* requests the server works on at a time
    History,      \* RAG_HISTORY_MESSAGES
    Threshold,    \* RAG_COMPACTION_THRESHOLD
    Window,       \* SHORT_TERM_MEMORY_MESSAGES
    Interval,     \* RAG_MEMORY_EXTRACTION_INTERVAL_MESSAGES
    Batch,        \* texts given to one extraction
    Sizes,        \* kinds of a question: "command", "short", "long"
    MaxQuestions, \* bound on the questions asked
    MaxFaults     \* bound on Redis failures and evictions

(* config.py, 44-48, 54 and 175-178. *)
ASSUME ConversationAssumption ==
    /\ {History, Threshold, Window, Interval, Batch, MaxQuestions, MaxFaults} \subseteq Nat
    /\ History + 2 <= Threshold /\ History <= Window
    /\ 0 < Window /\ 0 < Interval /\ 0 < Batch
    /\ Sizes # {} /\ Sizes \subseteq {"command", "short", "long"}

VARIABLES
    conv,        \* the rag_conversations row
    msgs,        \* its rag_messages rows in the order of their ids
    summary,     \* summary and summary_until_message_id
    known,       \* the user has a row in user_memories
    cache,       \* the list rag:short_term:<user>:<conversation>
    pc,          \* where a request is
    draft,       \* its conversation object's summary, and whether it changed it
    loc,         \* its other locals
    cleaning,    \* a deletion has committed and not yet cleaned the cache
    useMemory,   \* body.use_memory of a request
    asked,       \* questions asked so far
    faults,      \* Redis failures and evictions so far
    overlapped   \* two requests have been under way together (history)

request == <<pc, draft, loc>>
rows    == <<conv, msgs, summary, known>>
asking  == <<useMemory, asked, overlapped>>
bounds  == <<asking, faults>>
vars    == <<rows, cache, request, cleaning, bounds>>

-----------------------------------------------------------------------------
Latest == Len(msgs)
LastOf(s, n) == SubSeq(s, Max({1, Len(s) - n + 1}), Len(s))
Newest(n) == LastOf([i \in 1 .. Latest |-> i], n)

Message == [role : {"user", "assistant"}, size : {"command", "short", "long"},
            opt : BOOLEAN, marked : BOOLEAN, times : Nat]

Blank == [mode |-> "history", cached |-> <<>>, window |-> <<>>,
          pending |-> {}, chosen |-> {}]

Unread == [covers |-> {}, until |-> 0, changed |-> FALSE]

User(size, opt) == [role |-> "user", size |-> size, opt |-> opt, marked |-> ~opt, times |-> 0]
Assistant == [role |-> "assistant", size |-> "long", opt |-> FALSE, marked |-> TRUE, times |-> 0]

Goto(s, l)  == pc' = [pc EXCEPT ![s] = l]
Set(s, f)   == loc' = [loc EXCEPT ![s] = f]

Fault ==
    /\ faults < MaxFaults
    /\ faults' = faults + 1

Init ==
    /\ conv = "none"
    /\ msgs = <<>>
    /\ summary = [covers |-> {}, until |-> 0]
    /\ known = FALSE
    /\ cache = <<>>
    /\ pc = [s \in Slot |-> "idle"]
    /\ draft = [s \in Slot |-> Unread]
    /\ loc = [s \in Slot |-> Blank]
    /\ cleaning = FALSE
    /\ useMemory = [s \in Slot |-> FALSE]
    /\ asked = 0 /\ faults = 0
    /\ overlapped = FALSE

-----------------------------------------------------------------------------
(* A question: the first one makes the conversation, later ones read its
   row; there is none to read once it is deleted.  Free slots are alike.   *)
Begin(s) ==
    /\ pc[s] = "idle" /\ conv # "deleted"
    /\ s = CHOOSE t \in Slot : pc[t] = "idle"
    /\ asked < MaxQuestions /\ asked' = asked + 1
    /\ conv = "none" => \A t \in Slot : pc[t] = "idle"
    /\ Goto(s, IF conv = "none" THEN "commit" ELSE "context")
    /\ draft' = [draft EXCEPT ![s] = [covers |-> summary.covers, until |-> summary.until,
                                      changed |-> FALSE]]
    /\ \E opt \in BOOLEAN : useMemory' = [useMemory EXCEPT ![s] = opt]
    /\ Set(s, Blank)
    /\ overlapped' = (overlapped \/ \E t \in Slot : pc[t] # "idle")
    /\ UNCHANGED <<rows, cache, cleaning, faults>>

\* Mutant: compaction starts one message late.
CompactedLate(n, long) ==
    IF (n > Threshold \/ long) /\ n > History THEN n - History ELSE IF long THEN Max({1, n \div 2}) ELSE 0

(* How many of n messages behind the summary are compacted: all but the
   recent ones when they are too many or too long, and half of them when
   the recent ones alone are too long.                                     *)
Compacted(n, long) ==
    CASE (n >= Threshold \/ long) /\ n > History -> n - History
      [] long /\ n <= History -> Max({1, n \div 2})
      [] OTHER -> 0

\* Mutant: the new summary is made without the previous one.
MergedFresh(old, k) == [covers |-> old.until + 1 .. old.until + k, until |-> old.until + k, changed |-> TRUE]

Merged(old, k) ==
    [covers |-> old.covers \cup (old.until + 1 .. old.until + k), until |-> old.until + k, changed |-> TRUE]

Context(s) ==
    /\ pc[s] = "context"
    /\ LET n == Cardinality({i \in 1 .. Latest : i > draft[s].until}) IN
       \E long \in BOOLEAN :
          /\ long => n > 0
          /\ draft' = IF Compacted(n, long) = 0 THEN draft
                      ELSE [draft EXCEPT ![s] = Merged(@, Compacted(n, long))]
    /\ Goto(s, IF History = 0 THEN "commit" ELSE "lrange")
    /\ UNCHANGED <<rows, cache, loc, cleaning, bounds>>

-----------------------------------------------------------------------------
(* load_short_term_messages: the cached window if it ends with the newest
   message, else the table's, which replaces the cache.                    *)
Limit(s) == IF loc[s].mode = "history" THEN History ELSE Window
After(s) == IF loc[s].mode = "history" THEN "commit" ELSE "pending"

Lrange(s) ==
    /\ pc[s] = "lrange"
    /\ \/ Set(s, [loc[s] EXCEPT !.cached = LastOf(cache, Limit(s))]) /\ UNCHANGED faults
       \/ Set(s, [loc[s] EXCEPT !.cached = <<>>]) /\ Fault
    /\ Goto(s, "check")
    /\ UNCHANGED <<rows, cache, draft, cleaning, asking>>

Fresh(cached) == cached # <<>> /\ Latest > 0 /\ Last(cached) = Latest

Hit(s) ==
    /\ pc[s] = "check" /\ Fresh(loc[s].cached)
    /\ Set(s, [loc[s] EXCEPT !.window = loc[s].cached, !.cached = <<>>])
    /\ Goto(s, After(s))
    /\ UNCHANGED <<rows, cache, draft, cleaning, bounds>>

LoadFromPostgres(s) ==
    /\ pc[s] = "check"
    /\ \/ ~Fresh(loc[s].cached) /\ UNCHANGED faults
       \/ Fresh(loc[s].cached) /\ Fault          \* the refresh of the TTL failed
    /\ Set(s, [loc[s] EXCEPT !.window = Newest(Limit(s)), !.cached = <<>>])
    /\ Goto(s, IF Latest = 0 THEN After(s) ELSE "replace")
    /\ UNCHANGED <<rows, cache, draft, cleaning, asking>>

Replace(s) ==
    /\ pc[s] = "replace"
    /\ \/ cache' = LastOf(loc[s].window, Window) /\ UNCHANGED faults
       \/ UNCHANGED cache /\ Fault
    /\ Goto(s, After(s))
    /\ UNCHANGED <<rows, draft, loc, cleaning, asking>>

(* append_short_term_message, after the commit of the message. *)
Push(id) == \/ cache' = LastOf(Append(cache, id), Window) /\ UNCHANGED faults
            \/ UNCHANGED cache /\ Fault

-----------------------------------------------------------------------------
(* The question is committed together with what compaction changed in the
   conversation's row; a row deleted meanwhile fails the request.  The     
   size of a question matters to the extraction alone.                     *)
CommitUser(s) ==
    /\ pc[s] = "commit" /\ conv # "deleted"
    /\ \E size \in IF useMemory[s] THEN Sizes ELSE {"long"} :
          msgs' = Append(msgs, User(size, useMemory[s]))
    /\ conv' = "live"
    /\ summary' = IF draft[s].changed THEN [covers |-> draft[s].covers, until |-> draft[s].until]
                  ELSE summary
    /\ draft' = [draft EXCEPT ![s] = Unread]
    /\ Goto(s, "append")
    /\ Set(s, [Blank EXCEPT !.mode = "memory", !.chosen = {Latest + 1}])
    /\ UNCHANGED <<known, cache, cleaning, bounds>>

AppendUser(s) ==
    /\ pc[s] = "append"
    /\ \E id \in loc[s].chosen : Push(id)
    /\ Set(s, [loc[s] EXCEPT !.chosen = {}])
    /\ Goto(s, IF useMemory[s] THEN "lrange" ELSE "answer")
    /\ UNCHANGED <<rows, draft, cleaning, asking>>

\* Mutant: questions asked without memory are drawn from as well.
PendingAny == {i \in 1 .. Latest : msgs[i].role = "user" /\ (msgs[i].marked => ~msgs[i].opt)}

(* remember_short_term_window: the questions not yet drawn from, and which
   of them are worth it; later the model's keywords are added up and all of
   them marked in one transaction, also when the model found nothing.      *)
PendingRows == {i \in 1 .. Latest : msgs[i].role = "user" /\ ~msgs[i].marked}

Effective(pending) ==
    {i \in pending : msgs[i].size \in IF known THEN {"long"} ELSE {"short", "long"}}

ReadPending(s) ==
    /\ pc[s] = "pending"
    /\ LET some == Effective(PendingRows)
           due  == IF known THEN Cardinality(some) >= Interval ELSE some # {}
       IN  IF due
           THEN /\ Set(s, [Blank EXCEPT !.pending = PendingRows,
                              !.chosen = {i \in some : Cardinality({j \in some : j > i}) < Batch}])
                /\ Goto(s, "extract")
           ELSE /\ Set(s, Blank)
                /\ Goto(s, "answer")
    /\ UNCHANGED <<rows, cache, draft, cleaning, bounds>>

\* Mutant: the questions are not marked when the model has found something.
MarkLater(i, pending, chosen, found) ==
    [msgs[i] EXCEPT !.times = IF found /\ i \in chosen THEN @ + 1 ELSE @,
                    !.marked = @ \/ (i \in pending /\ ~found)]

Mark(i, pending, chosen, found) ==
    [msgs[i] EXCEPT !.times = IF found /\ i \in chosen THEN @ + 1 ELSE @,
                    !.marked = @ \/ i \in pending]

Extract(s) ==
    /\ pc[s] = "extract" /\ conv = "live"
    /\ \E found \in BOOLEAN :
          /\ msgs' = [i \in 1 .. Latest |-> Mark(i, loc[s].pending, loc[s].chosen, found)]
          /\ known' = (known \/ found)
    /\ Set(s, Blank)
    /\ Goto(s, "answer")
    /\ UNCHANGED <<conv, summary, cache, draft, cleaning, bounds>>

(* Retrieval and generation, then the answer. *)
CommitAnswer(s) ==
    /\ pc[s] = "answer" /\ conv = "live"
    /\ msgs' = Append(msgs, Assistant)
    /\ Set(s, [Blank EXCEPT !.chosen = {Latest + 1}])
    /\ Goto(s, "appendAnswer")
    /\ UNCHANGED <<conv, summary, known, cache, draft, cleaning, bounds>>

AppendAnswer(s) ==
    /\ pc[s] = "appendAnswer"
    /\ \E id \in loc[s].chosen : Push(id)
    /\ Set(s, Blank)
    /\ Goto(s, "idle")
    /\ UNCHANGED <<rows, draft, cleaning, asking>>

(* A request ends in an error: the row is gone when it writes, two
   extractions deadlock on the user's keywords, or retrieval fails.        *)
Fail(s) ==
    /\ \/ pc[s] \in {"commit", "append", "extract", "answer", "appendAnswer"} /\ conv = "deleted"
       \/ pc[s] = "extract" /\ \E t \in Slot \ {s} : pc[t] = "extract"
       \/ pc[s] = "answer"
    /\ Goto(s, "idle")
    /\ Set(s, Blank)
    /\ draft' = [draft EXCEPT ![s] = Unread]
    /\ UNCHANGED <<rows, cache, cleaning, bounds>>

-----------------------------------------------------------------------------
DeleteConversation ==
    /\ conv = "live"
    /\ conv' = "deleted" /\ msgs' = <<>>
    /\ cleaning' = TRUE
    /\ UNCHANGED <<summary, known, cache, request, bounds>>

DeleteShortTermMemory ==
    /\ cleaning
    /\ cleaning' = FALSE
    /\ \/ cache' = <<>> /\ UNCHANGED faults
       \/ UNCHANGED cache /\ Fault
    /\ UNCHANGED <<rows, request, asking>>

ClearMemories ==
    /\ known
    /\ known' = FALSE
    /\ UNCHANGED <<conv, msgs, summary, cache, request, cleaning, bounds>>

\* Mutant: the list is given no TTL.
ExpireNever == conv = "none" /\ cache # <<>> /\ cache' = <<>> /\ UNCHANGED <<rows, request, cleaning, bounds>>

(* SHORT_TERM_MEMORY_TTL_SECONDS is far longer than a request. *)
Expire ==
    /\ cache # <<>> /\ \A s \in Slot : pc[s] = "idle"
    /\ cache' = <<>>
    /\ UNCHANGED <<rows, request, cleaning, bounds>>

(* Redis restarts or needs the memory. *)
Evict ==
    /\ cache # <<>> /\ Fault
    /\ cache' = <<>>
    /\ UNCHANGED <<rows, request, cleaning, asking>>

Work(s) ==
    \/ Context(s) \/ Lrange(s) \/ Hit(s) \/ LoadFromPostgres(s) \/ Replace(s) \/ CommitUser(s)
    \/ AppendUser(s) \/ ReadPending(s) \/ Extract(s) \/ CommitAnswer(s) \/ AppendAnswer(s) \/ Fail(s)

Next ==
    \/ \E s \in Slot : Begin(s) \/ Work(s)
    \/ DeleteConversation \/ DeleteShortTermMemory \/ ClearMemories \/ Expire \/ Evict

(* The server works on its requests, and Redis drops what has expired. *)
Fairness ==
    /\ \A s \in Slot : WF_vars(Work(s))
    /\ WF_vars(DeleteShortTermMemory)
    /\ WF_vars(Expire)

Spec == Init /\ [][Next]_vars /\ Fairness

-----------------------------------------------------------------------------
(* The summary is made from every message up to its checkpoint, which alone
   says what later compactions may skip, whichever of several requests that
   compact the same messages commits last.                                 *)
SummaryKeepsAll == summary.covers = 1 .. summary.until

(* Only an extraction that has marked a question has counted it, and without
   requests that overlap it has done so once at most.                      *)
CountedOnce ==
    \A i \in 1 .. Latest :
        /\ msgs[i].times > 0 => msgs[i].marked
        /\ ~overlapped => msgs[i].times <= 1

(* What was asked without memory, and a mere command, never enters it.     *)
OptOutNeverCounted ==
    \A i \in 1 .. Latest : msgs[i].times > 0 => msgs[i].opt /\ msgs[i].size # "command"

(* short_term_memory.py, 52: a failing update of the cache affects nothing
   but speed, so requests that follow one another see the same window.     *)
FailureCostsSpeedOnly ==
    \A s \in Slot :
        (pc[s] = "commit" /\ conv = "live" /\ ~overlapped) => loc[s].window = Newest(History)

(* While Redis works and requests follow one another, a question is put to
   the newest messages of the table, and of the older ones only few are not
   in the summary either: those compaction has not reached.                *)
RecentIsSeen ==
    \A s \in Slot :
        (pc[s] = "commit" /\ conv = "live" /\ ~overlapped /\ faults = 0) =>
            /\ loc[s].window = Newest(History)
            /\ Cardinality((draft[s].until + 1 .. Latest) \ ToSet(loc[s].window))
                 <= Threshold - 1 - History

(* Whatever a request in flight or a failing Redis leaves of the window of a
   deleted conversation is gone in the end.                                *)
DeletedWindowGoes == (conv = "deleted") ~> [](cache = <<>>)
=============================================================================
