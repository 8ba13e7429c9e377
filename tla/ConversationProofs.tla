------------------------ MODULE ConversationProofs ------------------------
(***************************************************************************)
(* Proofs about Conversation: a summary is made from every message up to   *)
(* its checkpoint however many requests compact the conversation at once,  *)
(* nothing asked without memory is ever drawn from, and requests that      *)
(* follow one another count a question once and see the newest messages.   *)
(***************************************************************************)
EXTENDS Conversation, FiniteSetTheorems, SequenceTheorems, TLAPS

(* The requests' locations and the messages, as far as the proofs need. *)
Shape ==
    /\ DOMAIN pc = Slot /\ DOMAIN loc = Slot
    /\ useMemory \in [Slot -> BOOLEAN]
    /\ draft \in [Slot -> [covers : SUBSET Nat, until : Nat, changed : BOOLEAN]]
    /\ summary \in [covers : SUBSET Nat, until : Nat]
    /\ msgs \in Seq(Message)

(* A summary that is whole, in the row and in every request's object. *)
Whole(r) == r.covers = 1 .. r.until

SummaryInv ==
    /\ Shape
    /\ Whole(summary)
    /\ \A s \in Slot : Whole(draft[s])

(* A question that is not marked was asked with memory, and what a request
   has chosen to draw from stays a question worth it.                      *)
Drawable(m) == m.opt /\ m.size # "command"

MemoryInv ==
    /\ Shape
    /\ \A i \in 1 .. Latest :
          /\ msgs[i].role = "user" /\ ~msgs[i].marked => msgs[i].opt
          /\ msgs[i].times > 0 => Drawable(msgs[i])
    /\ \A s \in Slot : pc[s] = "extract" /\ conv # "deleted" =>
          \A i \in loc[s].chosen : i \in 1 .. Latest /\ Drawable(msgs[i])

-----------------------------------------------------------------------------
(* How much is compacted is a number of messages (conversation_context.py,
   337-340).                                                               *)
LEMMA CompactedIsNat ==
    ASSUME NEW n \in Nat, NEW long \in BOOLEAN
    PROVE  Compacted(n, long) \in Nat
<1>1. Max({1, n \div 2}) \in Nat
  <2>1. n \div 2 \in Nat
    BY Z3
  <2>2. \E x \in {1, n \div 2} : \A y \in {1, n \div 2} : x >= y
    <3>1. CASE n \div 2 <= 1
      BY <2>1, <3>1
    <3>2. CASE n \div 2 > 1
      BY <2>1, <3>2
    <3>3. QED
      BY <2>1, <3>1, <3>2
  <2>3. Max({1, n \div 2}) \in {1, n \div 2}
    BY <2>2 DEF Max
  <2>4. QED
    BY <2>1, <2>3
<1>2. CASE (n >= Threshold \/ long) /\ n > History
  BY <1>2, ConversationAssumption DEF Compacted
<1>3. CASE ~((n >= Threshold \/ long) /\ n > History) /\ long /\ n <= History
  BY <1>1, <1>3 DEF Compacted
<1>4. CASE ~((n >= Threshold \/ long) /\ n > History) /\ ~(long /\ n <= History)
  BY <1>4 DEF Compacted
<1>5. QED
  BY <1>2, <1>3, <1>4

(* Compaction adds the messages that follow the checkpoint
   (conversation_context.py, 341-345).                                     *)
LEMMA MergedIsWhole ==
    ASSUME NEW old \in [covers : SUBSET Nat, until : Nat, changed : BOOLEAN],
           NEW k \in Nat, Whole(old)
    PROVE  /\ Merged(old, k) \in [covers : SUBSET Nat, until : Nat, changed : BOOLEAN]
           /\ Whole(Merged(old, k))
<1>1. (1 .. old.until) \cup (old.until + 1 .. old.until + k) = 1 .. old.until + k
  OBVIOUS
<1>2. QED
  BY <1>1 DEF Merged, Whole

LEMMA SummaryInit == Init => SummaryInv /\ MemoryInv
<1> SUFFICES ASSUME Init PROVE SummaryInv /\ MemoryInv
  OBVIOUS
<1>1. 1 .. 0 = {} /\ Latest = 0 /\ 1 .. Latest = {}
  BY DEF Init, Latest
<1>2. Shape
  <2>1. DOMAIN pc = Slot /\ DOMAIN loc = Slot /\ useMemory \in [Slot -> BOOLEAN]
    BY DEF Init
  <2>2. draft \in [Slot -> [covers : SUBSET Nat, until : Nat, changed : BOOLEAN]]
    BY DEF Init, Unread
  <2>3. summary \in [covers : SUBSET Nat, until : Nat]
    BY DEF Init
  <2>4. msgs \in Seq(Message)
    BY DEF Init
  <2>5. QED
    BY <2>1, <2>2, <2>3, <2>4 DEF Shape
<1>3. QED
  BY <1>1, <1>2 DEF Init, SummaryInv, MemoryInv, Whole, Unread

LEMMA MarkedMessage ==
    ASSUME NEW m \in Message, NEW t \in Nat, NEW b \in BOOLEAN
    PROVE  [m EXCEPT !.times = t, !.marked = b] \in Message
BY DEF Message

LEMMA MarkKeepsMessages ==
    ASSUME Shape, NEW pending, NEW chosen, NEW found \in BOOLEAN
    PROVE  [i \in 1 .. Latest |-> Mark(i, pending, chosen, found)] \in Seq(Message)
<1>1. ASSUME NEW i \in 1 .. Latest PROVE Mark(i, pending, chosen, found) \in Message
  <2>1. msgs[i] \in Message
    BY DEF Shape, Latest
  <2> DEFINE t == IF found /\ i \in chosen THEN msgs[i].times + 1 ELSE msgs[i].times
             b == msgs[i].marked \/ i \in pending
  <2>2. t \in Nat /\ b \in BOOLEAN
    BY <2>1 DEF Message
  <2> HIDE DEF t, b
  <2>3. [msgs[i] EXCEPT !.times = t, !.marked = b] \in Message
    BY <2>1, <2>2, MarkedMessage
  <2>4. QED
    BY <2>3, Zenon DEF Mark, t, b
<1>2. Latest \in Nat
  BY DEF Shape, Latest
<1>3. QED
  BY <1>1, <1>2

(* Appending a message of the right type. *)
LEMMA AppendKeepsMessages ==
    ASSUME Shape, NEW size \in {"command", "short", "long"}, NEW opt \in BOOLEAN
    PROVE  /\ Append(msgs, User(size, opt)) \in Seq(Message)
           /\ Append(msgs, Assistant) \in Seq(Message)
<1>1. User(size, opt) \in Message /\ Assistant \in Message
  BY DEF User, Assistant, Message
<1>2. QED
  BY <1>1 DEF Shape

(* The locations and locals of the requests keep their shape. *)
LocShape ==
    /\ DOMAIN pc = Slot /\ DOMAIN loc = Slot
    /\ useMemory \in [Slot -> BOOLEAN]

LEMMA GotoKeeps ==
    ASSUME DOMAIN pc = Slot, NEW s, NEW l, Goto(s, l)
    PROVE  DOMAIN pc' = Slot
BY DEF Goto

LEMMA SetKeeps ==
    ASSUME DOMAIN loc = Slot, NEW s, NEW f, Set(s, f)
    PROVE  DOMAIN loc' = Slot
BY DEF Set

LEMMA LocStep ==
    ASSUME LocShape, [Next]_vars
    PROVE  LocShape'
<1> USE DEF LocShape
<1>1. ASSUME NEW s \in Slot, Begin(s) PROVE LocShape'
  <2>1. useMemory' \in [Slot -> BOOLEAN]
    BY <1>1 DEF Begin
  <2>2. QED
    BY <1>1, <2>1, GotoKeeps, SetKeeps DEF Begin
<1>2. ASSUME NEW s \in Slot, Context(s) \/ Replace(s) PROVE LocShape'
  BY <1>2, GotoKeeps DEF Context, Replace, bounds, asking
<1>3. ASSUME NEW s \in Slot, Lrange(s) PROVE LocShape'
  BY <1>3, GotoKeeps, SetKeeps DEF Lrange, asking
<1>4. ASSUME NEW s \in Slot, Hit(s) \/ LoadFromPostgres(s) PROVE LocShape'
  BY <1>4, GotoKeeps, SetKeeps DEF Hit, LoadFromPostgres, bounds, asking
<1>5. ASSUME NEW s \in Slot, CommitUser(s) \/ AppendUser(s) PROVE LocShape'
  BY <1>5, GotoKeeps, SetKeeps DEF CommitUser, AppendUser, bounds, asking
<1>6. ASSUME NEW s \in Slot, ReadPending(s) PROVE LocShape'
  BY <1>6, GotoKeeps, SetKeeps DEF ReadPending, bounds, asking
<1>7. ASSUME NEW s \in Slot, Extract(s) \/ CommitAnswer(s) \/ AppendAnswer(s) \/ Fail(s) PROVE LocShape'
  BY <1>7, GotoKeeps, SetKeeps DEF Extract, CommitAnswer, AppendAnswer, Fail, bounds, asking
<1>8. DeleteConversation \/ DeleteShortTermMemory \/ ClearMemories \/ Expire \/ Evict
      => UNCHANGED <<request, useMemory>>
  BY DEF DeleteConversation, DeleteShortTermMemory, ClearMemories, Expire, Evict, bounds, asking
<1>9. UNCHANGED vars => UNCHANGED <<request, useMemory>>
  BY DEF vars, bounds, asking
<1>10. QED
  BY <1>1, <1>2, <1>3, <1>4, <1>5, <1>6, <1>7, <1>8, <1>9 DEF Next, Work, request

(* Every step leaves a sequence of messages. *)
LEMMA MsgsStep ==
    ASSUME Shape, [Next]_vars
    PROVE  msgs' \in Seq(Message)
<1>1. ASSUME NEW s \in Slot, CommitUser(s) PROVE msgs' \in Seq(Message)
  <2>1. PICK size \in {"command", "short", "long"} : msgs' = Append(msgs, User(size, useMemory[s]))
    BY <1>1, ConversationAssumption DEF CommitUser
  <2>2. useMemory[s] \in BOOLEAN
    BY DEF Shape
  <2>3. QED
    BY <2>1, <2>2, AppendKeepsMessages
<1>2. ASSUME NEW s \in Slot, Extract(s) PROVE msgs' \in Seq(Message)
  <2>1. PICK found \in BOOLEAN :
           msgs' = [i \in 1 .. Latest |-> Mark(i, loc[s].pending, loc[s].chosen, found)]
    BY <1>2 DEF Extract
  <2>2. QED
    BY <2>1, MarkKeepsMessages
<1>3. ASSUME NEW s \in Slot, CommitAnswer(s) PROVE msgs' \in Seq(Message)
  BY <1>3, AppendKeepsMessages DEF CommitAnswer
<1>4. DeleteConversation => msgs' \in Seq(Message)
  BY DEF DeleteConversation
<1>5. ASSUME NEW s \in Slot,
             \/ Begin(s) \/ Context(s) \/ Lrange(s) \/ Hit(s) \/ LoadFromPostgres(s) \/ Replace(s)
             \/ AppendUser(s) \/ ReadPending(s) \/ AppendAnswer(s) \/ Fail(s)
      PROVE  UNCHANGED msgs
  BY <1>5 DEF Begin, Context, Lrange, Hit, LoadFromPostgres, Replace, AppendUser, ReadPending,
              AppendAnswer, Fail, rows
<1>6. DeleteShortTermMemory \/ ClearMemories \/ Expire \/ Evict \/ UNCHANGED vars => UNCHANGED msgs
  BY DEF DeleteShortTermMemory, ClearMemories, Expire, Evict, vars, rows
<1>7. QED
  BY <1>1, <1>2, <1>3, <1>4, <1>5, <1>6 DEF Next, Work, Shape

-----------------------------------------------------------------------------
SummaryType == [covers : SUBSET Nat, until : Nat]
DraftType   == [covers : SUBSET Nat, until : Nat, changed : BOOLEAN]

(* Summaries stay whole in the row and in the requests' objects. *)
SummaryPart ==
    /\ summary \in SummaryType /\ Whole(summary)
    /\ draft \in [Slot -> DraftType] /\ \A s \in Slot : Whole(draft[s])

LEMMA UnreadIsWhole == Unread \in DraftType /\ Whole(Unread)
<1>1. 1 .. 0 = {}
  OBVIOUS
<1>2. QED
  BY <1>1 DEF Unread, DraftType, Whole

LEMMA DraftKeeps ==
    ASSUME SummaryPart, NEW s \in Slot, NEW d \in DraftType, Whole(d),
           draft' = [draft EXCEPT ![s] = d]
    PROVE  draft' \in [Slot -> DraftType] /\ \A t \in Slot : Whole(draft'[t])
BY DEF SummaryPart

LEMMA SummaryStep ==
    ASSUME SummaryPart, Shape, [Next]_vars
    PROVE  SummaryPart'
<1>1. ASSUME NEW s \in Slot, Begin(s) PROVE SummaryPart'
  <2> DEFINE d == [covers |-> summary.covers, until |-> summary.until, changed |-> FALSE]
  <2>1. d \in DraftType /\ Whole(d)
    BY DEF SummaryPart, SummaryType, DraftType, Whole
  <2>2. draft' = [draft EXCEPT ![s] = d] /\ UNCHANGED summary
    BY <1>1 DEF Begin, rows
  <2> HIDE DEF d
  <2>3. QED
    BY <2>1, <2>2, DraftKeeps DEF SummaryPart
<1>2. ASSUME NEW s \in Slot, Context(s) PROVE SummaryPart'
  <2> DEFINE n == Cardinality({i \in 1 .. Latest : i > draft[s].until})
  <2>1. n \in Nat
    <3>1. Latest \in Nat
      BY DEF Shape, Latest
    <3>2. IsFiniteSet(1 .. Latest)
      BY <3>1, FS_Interval
    <3>3. QED
      BY <3>2, FS_Subset, FS_CardinalityType
  <2> HIDE DEF n
  <2>2. PICK long \in BOOLEAN :
           draft' = IF Compacted(n, long) = 0 THEN draft
                    ELSE [draft EXCEPT ![s] = Merged(@, Compacted(n, long))]
    BY <1>2 DEF Context, n
  <2>3. Compacted(n, long) \in Nat
    BY <2>1, CompactedIsNat
  <2> DEFINE d == Merged(draft[s], Compacted(n, long))
  <2>4. d \in DraftType /\ Whole(d)
    BY <2>3, MergedIsWhole DEF SummaryPart, DraftType
  <2>5. UNCHANGED summary /\ (draft' = draft \/ draft' = [draft EXCEPT ![s] = d])
    BY <1>2, <2>2 DEF Context, rows
  <2> HIDE DEF d
  <2>6. QED
    BY <2>4, <2>5, DraftKeeps DEF SummaryPart
<1>3. ASSUME NEW s \in Slot, CommitUser(s) PROVE SummaryPart'
  <2>1. summary' = summary \/ summary' = [covers |-> draft[s].covers, until |-> draft[s].until]
    BY <1>3 DEF CommitUser
  <2>2. [covers |-> draft[s].covers, until |-> draft[s].until] \in SummaryType
    BY DEF SummaryPart, SummaryType, DraftType
  <2>3. Whole([covers |-> draft[s].covers, until |-> draft[s].until])
    BY DEF SummaryPart, Whole
  <2>4. summary' \in SummaryType /\ Whole(summary')
    BY <2>1, <2>2, <2>3 DEF SummaryPart
  <2>5. draft' = [draft EXCEPT ![s] = Unread]
    BY <1>3 DEF CommitUser
  <2>6. QED
    BY <2>4, <2>5, UnreadIsWhole, DraftKeeps DEF SummaryPart
<1>4. ASSUME NEW s \in Slot, Fail(s) PROVE SummaryPart'
  <2>1. draft' = [draft EXCEPT ![s] = Unread] /\ UNCHANGED summary
    BY <1>4 DEF Fail, rows
  <2>2. QED
    BY <2>1, UnreadIsWhole, DraftKeeps DEF SummaryPart
<1>5. ASSUME NEW s \in Slot,
             \/ Lrange(s) \/ Hit(s) \/ LoadFromPostgres(s) \/ Replace(s) \/ AppendUser(s)
             \/ ReadPending(s) \/ Extract(s) \/ CommitAnswer(s) \/ AppendAnswer(s)
      PROVE  UNCHANGED <<summary, draft>>
  BY <1>5 DEF Lrange, Hit, LoadFromPostgres, Replace, AppendUser, ReadPending, Extract,
              CommitAnswer, AppendAnswer, rows
<1>6. ASSUME \/ DeleteConversation \/ DeleteShortTermMemory \/ ClearMemories \/ Expire \/ Evict
             \/ UNCHANGED vars
      PROVE  UNCHANGED <<summary, draft>>
  BY <1>6 DEF DeleteConversation, DeleteShortTermMemory, ClearMemories, Expire, Evict, vars, rows, request
<1>7. UNCHANGED <<summary, draft>> => SummaryPart'
  <2> SUFFICES ASSUME summary' = summary, draft' = draft PROVE SummaryPart'
    OBVIOUS
  <2>1. \A t \in Slot : Whole(draft'[t])
    BY DEF SummaryPart
  <2>2. QED
    BY <2>1 DEF SummaryPart
<1>8. \/ UNCHANGED <<summary, draft>>
      \/ \E s \in Slot : Begin(s) \/ Context(s) \/ CommitUser(s) \/ Fail(s)
  BY <1>5, <1>6 DEF Next, Work
<1>9. QED
  BY <1>1, <1>2, <1>3, <1>4, <1>7, <1>8

LEMMA SummaryInvStep == SummaryInv /\ [Next]_vars => SummaryInv'
<1> SUFFICES ASSUME SummaryInv, [Next]_vars PROVE SummaryInv'
  OBVIOUS
<1>1. SummaryPart' /\ LocShape' /\ msgs' \in Seq(Message)
  BY SummaryStep, LocStep, MsgsStep
     DEF SummaryInv, SummaryPart, SummaryType, DraftType, Shape, LocShape
<1>2. QED
  BY <1>1 DEF SummaryInv, SummaryPart, SummaryType, DraftType, Shape, LocShape

(* However many requests compact the conversation at once, its summary is
   made from every message up to its checkpoint (conversation_context.py,
   337-346).                                                               *)
THEOREM SummaryIsWhole == Spec => []SummaryKeepsAll
<1>1. Init => SummaryInv
  BY SummaryInit
<1>2. SummaryInv => SummaryKeepsAll
  BY DEF SummaryInv, SummaryKeepsAll, Whole
<1>3. QED
  BY <1>1, <1>2, SummaryInvStep, PTL DEF Spec

-----------------------------------------------------------------------------
(* The messages keep what the extraction goes by: whether a question was
   asked with memory and how long it is.                                   *)
Honest(m) ==
    /\ m.role = "user" /\ ~m.marked => m.opt
    /\ m.times > 0 => Drawable(m)

ChosenDrawable(s) ==
    pc[s] = "extract" /\ conv # "deleted" =>
        \A i \in loc[s].chosen : i \in 1 .. Latest /\ Drawable(msgs[i])

(* A new message is honest, and the older ones are as they were. *)
LEMMA AppendKeepsHonest ==
    ASSUME Shape, NEW m \in Message, Honest(m), msgs' = Append(msgs, m),
           \A i \in 1 .. Latest : Honest(msgs[i])
    PROVE  /\ \A i \in 1 .. Latest' : Honest(msgs'[i])
           /\ \A i \in 1 .. Latest : i \in 1 .. Latest' /\ msgs'[i] = msgs[i]
<1>1. /\ Len(msgs') = Len(msgs) + 1 /\ Len(msgs) \in Nat
      /\ \A i \in 1 .. Len(msgs) : msgs'[i] = msgs[i]
      /\ msgs'[Len(msgs) + 1] = m
  BY DEF Shape
<1>2. \A i \in 1 .. Latest : i \in 1 .. Latest' /\ msgs'[i] = msgs[i]
  BY <1>1 DEF Latest
<1>3. ASSUME NEW i \in 1 .. Latest' PROVE Honest(msgs'[i])
  <2>1. i \in 1 .. Latest \/ i = Len(msgs) + 1
    BY <1>1 DEF Latest
  <2>2. QED
    BY <1>1, <1>2, <2>1
<1>4. QED
  BY <1>2, <1>3

LEMMA NewMessagesHonest ==
    ASSUME NEW size \in {"command", "short", "long"}, NEW opt \in BOOLEAN
    PROVE  /\ User(size, opt) \in Message /\ Honest(User(size, opt))
           /\ Assistant \in Message /\ Honest(Assistant)
<1>1. User(size, opt) \in Message /\ Assistant \in Message
  BY DEF User, Assistant, Message
<1>2. /\ User(size, opt).times = 0 /\ User(size, opt).opt = opt
      /\ User(size, opt).marked = ~opt
      /\ Assistant.times = 0 /\ Assistant.role = "assistant"
  BY DEF User, Assistant
<1>3. ~(0 > 0)
  OBVIOUS
<1>4. Honest(Assistant)
  BY <1>2, <1>3 DEF Honest
<1>5. Honest(User(size, opt))
  <2>1. ~User(size, opt).marked => User(size, opt).opt
    BY <1>2
  <2>2. ~(User(size, opt).times > 0)
    BY <1>2, <1>3
  <2>3. QED
    BY <2>1, <2>2 DEF Honest
<1>6. QED
  BY <1>1, <1>4, <1>5

(* Marking a question counts it if it was chosen, and changes nothing that
   the choice went by (memory_service.py, 160-169).                        *)
LEMMA MarkKeepsHonest ==
    ASSUME Shape, NEW i \in 1 .. Latest, NEW pending, NEW chosen, NEW found \in BOOLEAN,
           Honest(msgs[i]), i \in chosen => Drawable(msgs[i])
    PROVE  /\ Honest(Mark(i, pending, chosen, found))
           /\ Drawable(msgs[i]) => Drawable(Mark(i, pending, chosen, found))
<1>1. msgs[i] \in Message
  BY DEF Shape, Latest
<1> DEFINE k == Mark(i, pending, chosen, found)
<1>2. /\ k.role = msgs[i].role /\ k.opt = msgs[i].opt /\ k.size = msgs[i].size
      /\ ~k.marked => ~msgs[i].marked
      /\ k.times = IF found /\ i \in chosen THEN msgs[i].times + 1 ELSE msgs[i].times
  BY <1>1 DEF Mark, Message
<1> HIDE DEF k
<1>3. Drawable(msgs[i]) => Drawable(k)
  BY <1>2 DEF Drawable
<1>4. k.role = "user" /\ ~k.marked => k.opt
  BY <1>2 DEF Honest
<1>5. k.times > 0 => Drawable(k)
  <2>1. CASE i \in chosen
    BY <1>3, <2>1
  <2>2. CASE i \notin chosen
    BY <1>2, <1>3, <2>2 DEF Honest
  <2>3. QED
    BY <2>1, <2>2
<1>6. QED
  BY <1>3, <1>4, <1>5 DEF Honest, k

MemoryPart ==
    /\ \A i \in 1 .. Latest : Honest(msgs[i])
    /\ \A s \in Slot : ChosenDrawable(s)

(* A request that goes on elsewhere leaves the others' choices alone. *)
LEMMA ElsewhereKeepsChosen ==
    ASSUME Shape, MemoryPart, NEW s \in Slot,
           \A t \in Slot \ {s} : pc'[t] = pc[t] /\ loc'[t] = loc[t],
           pc'[s] # "extract" \/ ChosenDrawable(s)',
           conv' # "deleted" => conv # "deleted",
           \A i \in 1 .. Latest : i \in 1 .. Latest' /\ (Drawable(msgs[i]) => Drawable(msgs'[i]))
    PROVE  \A t \in Slot : ChosenDrawable(t)'
<1> SUFFICES ASSUME NEW t \in Slot PROVE ChosenDrawable(t)'
  OBVIOUS
<1>1. CASE t = s
  BY <1>1 DEF ChosenDrawable
<1>2. CASE t # s
  BY <1>2 DEF ChosenDrawable, MemoryPart
<1>3. QED
  BY <1>1, <1>2

LEMMA MemoryStep ==
    ASSUME Shape, MemoryPart, [Next]_vars
    PROVE  MemoryPart'
<1>1. ASSUME NEW s \in Slot, CommitUser(s) \/ CommitAnswer(s) PROVE MemoryPart'
  <2>1. PICK m \in Message : Honest(m) /\ msgs' = Append(msgs, m)
    <3>1. CASE CommitUser(s)
      <4>1. PICK size \in {"command", "short", "long"} : msgs' = Append(msgs, User(size, useMemory[s]))
        BY <3>1, ConversationAssumption DEF CommitUser
      <4>2. useMemory[s] \in BOOLEAN
        BY DEF Shape
      <4>3. QED
        BY <4>1, <4>2, NewMessagesHonest
    <3>2. CASE CommitAnswer(s)
      BY <3>2, NewMessagesHonest DEF CommitAnswer
    <3>3. QED
      BY <1>1, <3>1, <3>2
  <2>2. /\ \A i \in 1 .. Latest' : Honest(msgs'[i])
        /\ \A i \in 1 .. Latest : i \in 1 .. Latest' /\ msgs'[i] = msgs[i]
    BY <2>1, AppendKeepsHonest DEF MemoryPart
  <2>3. \A t \in Slot \ {s} : pc'[t] = pc[t] /\ loc'[t] = loc[t]
    BY <1>1 DEF CommitUser, CommitAnswer, Goto, Set, Shape
  <2>4. pc'[s] # "extract"
    BY <1>1 DEF CommitUser, CommitAnswer, Goto, Shape
  <2>5. conv # "deleted"
    BY <1>1 DEF CommitUser, CommitAnswer
  <2>6. QED
    BY <2>2, <2>3, <2>4, <2>5, ElsewhereKeepsChosen DEF MemoryPart
<1>2. ASSUME NEW s \in Slot, Extract(s) PROVE MemoryPart'
  <2>1. PICK found \in BOOLEAN :
           msgs' = [i \in 1 .. Latest |-> Mark(i, loc[s].pending, loc[s].chosen, found)]
    BY <1>2 DEF Extract
  <2>2. pc[s] = "extract" /\ conv # "deleted" /\ UNCHANGED conv
    BY <1>2 DEF Extract
  <2>3. \A i \in 1 .. Latest : i \in loc[s].chosen => Drawable(msgs[i])
    BY <2>2 DEF MemoryPart, ChosenDrawable
  <2>4. \A i \in 1 .. Latest :
           /\ Honest(msgs'[i])
           /\ Drawable(msgs[i]) => Drawable(msgs'[i])
    BY <2>1, <2>3, MarkKeepsHonest DEF MemoryPart
  <2>5. Latest' = Latest
    BY <2>1 DEF Latest, Shape
  <2>6. \A t \in Slot \ {s} : pc'[t] = pc[t] /\ loc'[t] = loc[t]
    BY <1>2 DEF Extract, Goto, Set, Shape
  <2>7. pc'[s] # "extract"
    BY <1>2 DEF Extract, Goto, Shape
  <2>8. QED
    BY <2>2, <2>4, <2>5, <2>6, <2>7, ElsewhereKeepsChosen DEF MemoryPart
<1>3. ASSUME NEW s \in Slot, ReadPending(s) PROVE MemoryPart'
  <2>1. UNCHANGED <<msgs, conv>> /\ Latest' = Latest
    BY <1>3 DEF ReadPending, rows, Latest
  <2>2. \A t \in Slot \ {s} : pc'[t] = pc[t] /\ loc'[t] = loc[t]
    BY <1>3 DEF ReadPending, Goto, Set, Shape
  <2>3. \A i \in Effective(PendingRows) : i \in 1 .. Latest /\ Drawable(msgs[i])
    BY DEF Effective, PendingRows, MemoryPart, Honest, Drawable
  <2>4. pc'[s] = "extract" => \A i \in loc'[s].chosen : i \in Effective(PendingRows)
    <3> DEFINE some == Effective(PendingRows)
               picked == {i \in some : Cardinality({j \in some : j > i}) < Batch}
    <3>1. \/ Set(s, [Blank EXCEPT !.pending = PendingRows, !.chosen = picked])
          \/ pc' = [pc EXCEPT ![s] = "answer"]
      BY <1>3 DEF ReadPending, Goto
    <3>2. picked \subseteq some
      OBVIOUS
    <3> HIDE DEF some, picked
    <3>3. [Blank EXCEPT !.pending = PendingRows, !.chosen = picked].chosen = picked
      BY DEF Blank
    <3>4. CASE Set(s, [Blank EXCEPT !.pending = PendingRows, !.chosen = picked])
      BY <3>2, <3>3, <3>4 DEF Set, Shape, some
    <3>5. CASE pc' = [pc EXCEPT ![s] = "answer"]
      BY <3>5 DEF Shape
    <3>6. QED
      BY <3>1, <3>4, <3>5
  <2>5. pc'[s] # "extract" \/ ChosenDrawable(s)'
    BY <2>1, <2>3, <2>4 DEF ChosenDrawable
  <2>6. QED
    BY <2>1, <2>2, <2>5, ElsewhereKeepsChosen DEF MemoryPart
<1>4. ASSUME DeleteConversation PROVE MemoryPart'
  <2>1. conv' = "deleted" /\ Latest' = 0
    BY <1>4 DEF DeleteConversation, Latest
  <2>2. QED
    BY <2>1 DEF MemoryPart, ChosenDrawable
<1>5. ASSUME NEW s \in Slot,
             \/ Begin(s) \/ Context(s) \/ Lrange(s) \/ Hit(s) \/ LoadFromPostgres(s) \/ Replace(s)
             \/ AppendUser(s) \/ AppendAnswer(s) \/ Fail(s)
      PROVE  MemoryPart'
  <2>1. UNCHANGED <<msgs, conv>> /\ Latest' = Latest
    BY <1>5 DEF Begin, Context, Lrange, Hit, LoadFromPostgres, Replace, AppendUser, AppendAnswer,
                Fail, rows, Latest
  <2>2. \A t \in Slot \ {s} : pc'[t] = pc[t] /\ loc'[t] = loc[t]
    <3>1. CASE Begin(s) \/ Fail(s)
      BY <3>1 DEF Begin, Fail, Goto, Set, Shape
    <3>2. CASE Context(s) \/ Lrange(s) \/ Replace(s)
      BY <3>2 DEF Context, Lrange, Replace, Goto, Set, Shape
    <3>3. CASE Hit(s) \/ LoadFromPostgres(s)
      BY <3>3 DEF Hit, LoadFromPostgres, Goto, Set, Shape
    <3>4. CASE AppendUser(s) \/ AppendAnswer(s)
      BY <3>4 DEF AppendUser, AppendAnswer, Goto, Set, Shape
    <3>5. QED
      BY <1>5, <3>1, <3>2, <3>3, <3>4
  <2>3. pc'[s] # "extract"
    <3>1. CASE Begin(s) \/ Fail(s)
      BY <3>1 DEF Begin, Fail, Goto, Shape
    <3>2. CASE Context(s) \/ Lrange(s) \/ Replace(s)
      BY <3>2 DEF Context, Lrange, Replace, After, Goto, Shape
    <3>3. CASE Hit(s) \/ LoadFromPostgres(s)
      BY <3>3 DEF Hit, LoadFromPostgres, After, Goto, Shape
    <3>4. CASE AppendUser(s) \/ AppendAnswer(s)
      BY <3>4 DEF AppendUser, AppendAnswer, Goto, Shape
    <3>5. QED
      BY <1>5, <3>1, <3>2, <3>3, <3>4
  <2>4. QED
    BY <2>1, <2>2, <2>3, ElsewhereKeepsChosen DEF MemoryPart
<1>6. ASSUME DeleteShortTermMemory \/ ClearMemories \/ Expire \/ Evict \/ UNCHANGED vars
      PROVE  MemoryPart'
  <2>1. msgs' = msgs /\ conv' = conv /\ pc' = pc /\ loc' = loc /\ Latest' = Latest
    BY <1>6 DEF DeleteShortTermMemory, ClearMemories, Expire, Evict, vars, rows, request, Latest
  <2>2. \A t \in Slot : ChosenDrawable(t)'
    BY <2>1 DEF MemoryPart, ChosenDrawable
  <2>3. QED
    BY <2>1, <2>2 DEF MemoryPart
<1>7. QED
  BY <1>1, <1>2, <1>3, <1>4, <1>5, <1>6 DEF Next, Work

LEMMA MemoryInvStep == MemoryInv /\ SummaryInv /\ [Next]_vars => MemoryInv'
<1> SUFFICES ASSUME MemoryInv, SummaryInv, [Next]_vars PROVE MemoryInv'
  OBVIOUS
<1>1. Shape /\ MemoryPart
  BY DEF MemoryInv, MemoryPart, Honest, ChosenDrawable
<1>2. MemoryPart'
  BY <1>1, MemoryStep
<1>3. Shape'
  BY SummaryInvStep DEF SummaryInv
<1>4. QED
  BY <1>2, <1>3 DEF MemoryInv, MemoryPart, Honest, ChosenDrawable

(* Nothing asked without memory and no mere command is ever drawn from,
   whatever requests, extractions and deletions run at once
   (memory_service.py, 127-169; rag_service.py, 177).                      *)
THEOREM OptOutRespected == Spec => []OptOutNeverCounted
<1>1. Init => SummaryInv /\ MemoryInv
  BY SummaryInit
<1>2. SummaryInv /\ MemoryInv /\ [Next]_vars => SummaryInv' /\ MemoryInv'
  BY SummaryInvStep, MemoryInvStep
<1>3. MemoryInv => OptOutNeverCounted
  BY DEF MemoryInv, OptOutNeverCounted, Drawable
<1>4. QED
  BY <1>1, <1>2, <1>3, PTL DEF Spec

-----------------------------------------------------------------------------
(* The types of the variables. *)
Location == {"idle", "context", "lrange", "check", "replace", "commit", "append", "pending",
             "extract", "answer", "appendAnswer"}

Local == [mode : {"history", "memory"}, cached : Seq(Nat), window : Seq(Nat),
          pending : SUBSET Nat, chosen : SUBSET Nat]

ConversationTypeOK ==
    /\ Shape
    /\ conv \in {"none", "live", "deleted"}
    /\ known \in BOOLEAN /\ cleaning \in BOOLEAN /\ overlapped \in BOOLEAN
    /\ cache \in Seq(Nat)
    /\ pc \in [Slot -> Location]
    /\ loc \in [Slot -> Local]
    /\ asked \in 0 .. MaxQuestions /\ faults \in 0 .. MaxFaults

(* Requests that follow one another: one slot at most is taken. *)
Serial == ~overlapped => \A s, t \in Slot : pc[s] # "idle" /\ pc[t] # "idle" => s = t

(* What a request has chosen is marked together with the rest of what it
   has read, and none of that was marked before it if nobody else was
   under way.                                                              *)
Counted ==
    /\ CountedOnce
    /\ \A s \in Slot : pc[s] = "extract" =>
          /\ loc[s].chosen \subseteq loc[s].pending
          /\ ~overlapped => \A i \in loc[s].pending : i \in 1 .. Latest => ~msgs[i].marked

-----------------------------------------------------------------------------
(* A window is the end of 1 .. n. *)
IsTail(c, n) == Len(c) <= n /\ \A i \in 1 .. Len(c) : c[i] = n - Len(c) + i

(* The cache ends with message n and is long enough for the history. *)
Full(n) == IsTail(cache, n) /\ (Len(cache) >= History \/ Len(cache) = n)

Behind == {"append", "appendAnswer"}
Filled == {"commit", "pending", "extract", "answer"}

(* The cache as requests that follow one another keep it. *)
CacheFollows ==
    /\ \A s \in Slot : pc[s] \in Behind => loc[s].chosen = {Latest} /\ Latest > 0 /\ Full(Latest - 1)
    /\ \A s \in Slot : pc[s] \in Filled => Full(Latest)
    /\ (\A s \in Slot : pc[s] \notin Behind) => cache = <<>> \/ Full(Latest)

(* What a request has read of the window ... *)
WindowFollows ==
    \A s \in Slot :
        /\ pc[s] = "context" => loc[s].window = <<>>
        /\ pc[s] = "check" => loc[s].cached = LastOf(cache, Limit(s))
        /\ pc[s] = "replace" => loc[s].window = Newest(Limit(s)) /\ Latest > 0
        /\ pc[s] = "commit" /\ conv = "live" => loc[s].window = Newest(History)

(* ... and how little its summary leaves out; a window that is read once the
   question is stored is for the memory.                                   *)
FewLeft ==
    \A s \in Slot :
        /\ \/ pc[s] \in {"lrange", "check", "replace"} /\ loc[s].mode = "history"
           \/ pc[s] = "commit" /\ conv = "live"
           => Latest - draft[s].until <= Threshold - 1
        /\ pc[s] = "append" => loc[s].mode = "memory"

Undisturbed == ~overlapped /\ faults = 0 /\ conv # "deleted"

Recent ==
    /\ cleaning => conv = "deleted"
    /\ conv = "none" => Latest = 0
    /\ Undisturbed => CacheFollows /\ WindowFollows /\ FewLeft

WindowInv == ConversationTypeOK /\ Serial /\ Counted /\ Recent

-----------------------------------------------------------------------------
(* Windows. *)
LEMMA MaxOfTwo ==
    ASSUME NEW a \in Int, NEW b \in Int
    PROVE  Max({a, b}) = IF a >= b THEN a ELSE b
<1>1. \E x \in {a, b} : \A y \in {a, b} : x >= y
  BY SMT
<1>2. Max({a, b}) \in {a, b} /\ \A y \in {a, b} : Max({a, b}) >= y
  BY <1>1, Zenon DEF Max
<1> QED  BY <1>2

LEMMA LastOfProperties ==
    ASSUME NEW S, NEW c \in Seq(S), NEW w \in Nat
    PROVE  /\ LastOf(c, w) \in Seq(S)
           /\ Len(LastOf(c, w)) = IF Len(c) <= w THEN Len(c) ELSE w
           /\ \A i \in 1 .. Len(LastOf(c, w)) : LastOf(c, w)[i] = c[Len(c) - Len(LastOf(c, w)) + i]
<1> DEFINE m == Max({1, Len(c) - w + 1})
<1>1. Len(c) \in Nat /\ Len(c) - w + 1 \in Int
  OBVIOUS
<1>2. m = IF Len(c) <= w THEN 1 ELSE Len(c) - w + 1
  BY <1>1, MaxOfTwo
<1>3. m \in Int /\ LastOf(c, w) = SubSeq(c, m, Len(c))
  BY <1>1, <1>2 DEF LastOf
<1>4. \A i \in m .. Len(c) : c[i] \in S
  BY <1>1, <1>2
<1> HIDE DEF m
<1>5. /\ SubSeq(c, m, Len(c)) \in Seq(S)
      /\ Len(SubSeq(c, m, Len(c))) = IF m <= Len(c) THEN Len(c) - m + 1 ELSE 0
      /\ \A i \in 1 .. Len(c) - m + 1 : SubSeq(c, m, Len(c))[i] = c[m + i - 1]
  BY <1>1, <1>3, <1>4, SubSeqProperties
<1>6. Len(LastOf(c, w)) = IF Len(c) <= w THEN Len(c) ELSE w
  <2>1. CASE Len(c) <= w
    BY <1>1, <1>2, <1>3, <1>5, <2>1
  <2>2. CASE Len(c) > w
    <3>1. m = Len(c) - w + 1
      BY <1>1, <1>2, <2>2
    <3>2. Len(c) - m + 1 = w /\ (w = 0 <=> ~(m <= Len(c)))
      BY <1>1, <3>1
    <3> QED  BY <1>1, <1>3, <1>5, <2>2, <3>2
  <2> QED  BY <1>1, <2>1, <2>2
<1>7. Len(LastOf(c, w)) = Len(c) - m + 1
  BY <1>1, <1>2, <1>6
<1>8. ASSUME NEW i \in 1 .. Len(LastOf(c, w))
      PROVE  LastOf(c, w)[i] = c[Len(c) - Len(LastOf(c, w)) + i]
  <2>1. Len(c) - Len(LastOf(c, w)) + i = m + i - 1 /\ i \in 1 .. Len(c) - m + 1
    BY <1>1, <1>3, <1>7
  <2> QED  BY <1>3, <1>5, <2>1
<1> QED  BY <1>3, <1>5, <1>6, <1>8

LEMMA TailOfTail ==
    ASSUME NEW c \in Seq(Nat), NEW n \in Nat, IsTail(c, n), NEW w \in Nat
    PROVE  IsTail(LastOf(c, w), n)
BY LastOfProperties DEF IsTail

LEMMA TailsAgree ==
    ASSUME NEW c \in Seq(Nat), NEW d \in Seq(Nat), NEW n \in Nat,
           IsTail(c, n), IsTail(d, n), Len(c) = Len(d)
    PROVE  c = d
BY SeqEqual DEF IsTail

LEMMA NewestIsTail ==
    ASSUME Shape, NEW w \in Nat
    PROVE  /\ Newest(w) \in Seq(Nat) /\ IsTail(Newest(w), Latest)
           /\ Len(Newest(w)) = IF Latest <= w THEN Latest ELSE w
<1> DEFINE all == [i \in 1 .. Latest |-> i]
<1>1. Latest \in Nat
  BY DEF Shape, Latest
<1>2. all \in Seq(Nat) /\ Len(all) = Latest /\ \A i \in 1 .. Latest : all[i] = i
  BY <1>1
<1>3. IsTail(all, Latest)
  BY <1>1, <1>2 DEF IsTail
<1> HIDE DEF all
<1>4. Newest(w) = LastOf(all, w)
  BY DEF Newest, all
<1> QED  BY <1>1, <1>2, <1>3, <1>4, TailOfTail, LastOfProperties

(* The bounds of the windows. *)
LEMMA Bounds ==
    /\ History \in Nat /\ Window \in Nat \ {0} /\ History <= Window
    /\ Threshold \in Nat /\ History + 2 <= Threshold
BY ConversationAssumption

(* A message appended to a window that reached the one before it. *)
LEMMA PushedIsTail ==
    ASSUME NEW c \in Seq(Nat), NEW n \in Nat \ {0}, IsTail(c, n - 1),
           Len(c) >= History \/ Len(c) = n - 1
    PROVE  LET d == LastOf(Append(c, n), Window)
           IN  d \in Seq(Nat) /\ IsTail(d, n) /\ (Len(d) >= History \/ Len(d) = n)
<1> DEFINE a == Append(c, n)
<1>1. /\ a \in Seq(Nat) /\ Len(a) = Len(c) + 1 /\ Len(c) \in Nat
      /\ \A i \in 1 .. Len(c) : a[i] = c[i]
      /\ a[Len(c) + 1] = n
  OBVIOUS
<1> HIDE DEF a
<1>2. IsTail(a, n)
  <2>1. Len(a) <= n
    BY <1>1 DEF IsTail
  <2>2. ASSUME NEW i \in 1 .. Len(a) PROVE a[i] = n - Len(a) + i
    <3>1. CASE i \in 1 .. Len(c)
      <4>1. c[i] = n - 1 - Len(c) + i
        BY <3>1 DEF IsTail
      <4> QED  BY <1>1, <3>1, <4>1
    <3>2. CASE i = Len(c) + 1
      BY <1>1, <3>2
    <3> QED  BY <1>1, <3>1, <3>2
  <2> QED  BY <2>1, <2>2 DEF IsTail
<1>3. IsTail(LastOf(a, Window), n)
  BY <1>1, <1>2, Bounds, TailOfTail
<1>4. LastOf(a, Window) \in Seq(Nat) /\ Len(LastOf(a, Window)) = IF Len(a) <= Window THEN Len(a) ELSE Window
  BY <1>1, Bounds, LastOfProperties
<1> QED  BY <1>1, <1>3, <1>4, Bounds DEF a

-----------------------------------------------------------------------------
(* Type correctness. *)
LEMMA LocalTypes ==
    /\ Blank \in Local
    /\ \A l \in Local, c \in Seq(Nat) : [l EXCEPT !.cached = c] \in Local
    /\ \A l \in Local, w \in Seq(Nat) : [l EXCEPT !.window = w, !.cached = <<>>] \in Local
    /\ \A l \in Local : [l EXCEPT !.chosen = {}] \in Local
    /\ \A n \in Nat : /\ [Blank EXCEPT !.mode = "memory", !.chosen = {n}] \in Local
                      /\ [Blank EXCEPT !.chosen = {n}] \in Local
    /\ \A p, c \in SUBSET Nat : [Blank EXCEPT !.pending = p, !.chosen = c] \in Local
<1>1. Blank \in Local
  BY EmptySeq DEF Blank, Local
<1>2. \A l \in Local, c \in Seq(Nat) : [l EXCEPT !.cached = c] \in Local
  BY DEF Local
<1>3. \A l \in Local, w \in Seq(Nat) : [l EXCEPT !.window = w, !.cached = <<>>] \in Local
  BY EmptySeq DEF Local
<1>4. \A l \in Local : [l EXCEPT !.chosen = {}] \in Local
  BY DEF Local
<1>5. \A n \in Nat : /\ [Blank EXCEPT !.mode = "memory", !.chosen = {n}] \in Local
                     /\ [Blank EXCEPT !.chosen = {n}] \in Local
  BY <1>1 DEF Local
<1>6. \A p, c \in SUBSET Nat : [Blank EXCEPT !.pending = p, !.chosen = c] \in Local
  BY <1>1 DEF Local
<1> QED  BY <1>1, <1>2, <1>3, <1>4, <1>5, <1>6

(* A request goes on to a location with new locals. *)
LEMMA RequestTypes ==
    ASSUME ConversationTypeOK, NEW s \in Slot
    PROVE  /\ \A l \in Location : Goto(s, l) => pc' \in [Slot -> Location] /\ pc'[s] = l
                                               /\ \A t \in Slot \ {s} : pc'[t] = pc[t]
           /\ \A f \in Local : Set(s, f) => loc' \in [Slot -> Local] /\ loc'[s] = f
                                            /\ \A t \in Slot \ {s} : loc'[t] = loc[t]
           /\ loc[s] \in Local /\ pc[s] \in Location
           /\ After(s) \in {"commit", "pending"} /\ Limit(s) \in {History, Window}
BY DEF ConversationTypeOK, Goto, Set, Location, After, Limit

LEMMA FaultType ==
    ASSUME ConversationTypeOK, Fault
    PROVE  faults' \in 0 .. MaxFaults /\ faults' > 0
BY ConversationAssumption DEF ConversationTypeOK, Fault

LEMMA LatestIsNat == Shape => Latest \in Nat
BY DEF Shape, Latest

LEMMA TypeInit == Init => ConversationTypeOK
<1> SUFFICES ASSUME Init PROVE ConversationTypeOK
  OBVIOUS
<1>1. Shape
  BY SummaryInit DEF SummaryInv
<1>2. cache \in Seq(Nat) /\ asked \in 0 .. MaxQuestions /\ faults \in 0 .. MaxFaults
  BY EmptySeq, ConversationAssumption DEF Init
<1>3. pc \in [Slot -> Location] /\ loc \in [Slot -> Local]
  BY LocalTypes DEF Init, Location
<1> QED  BY <1>1, <1>2, <1>3 DEF Init, ConversationTypeOK

LEMMA TypeStep ==
    ASSUME ConversationTypeOK, Shape', [Next]_vars
    PROVE  ConversationTypeOK'
<1> DEFINE Scalars == /\ conv' \in {"none", "live", "deleted"} /\ known' \in BOOLEAN
                      /\ cleaning' \in BOOLEAN /\ overlapped' \in BOOLEAN
                      /\ asked' \in 0 .. MaxQuestions /\ faults' \in 0 .. MaxFaults
           Moves == pc' \in [Slot -> Location] /\ loc' \in [Slot -> Local]
<1>1. ASSUME NEW s \in Slot, Begin(s) PROVE Scalars /\ Moves /\ cache' \in Seq(Nat)
  <2>1. Moves
    BY <1>1, RequestTypes, LocalTypes DEF Begin, Location
  <2>2. asked' \in 0 .. MaxQuestions
    BY <1>1, ConversationAssumption DEF Begin, ConversationTypeOK
  <2> QED  BY <1>1, <2>1, <2>2 DEF Begin, rows, ConversationTypeOK
<1>2. ASSUME NEW s \in Slot, Context(s) \/ Replace(s) \/ Lrange(s) \/ Hit(s) \/ LoadFromPostgres(s)
      PROVE  Scalars /\ Moves /\ cache' \in Seq(Nat)
  <2>1. Limit(s) \in Nat /\ Window \in Nat
    BY Bounds, RequestTypes
  <2>2. LastOf(cache, Limit(s)) \in Seq(Nat) /\ Newest(Limit(s)) \in Seq(Nat)
    BY <2>1, LastOfProperties, NewestIsTail DEF ConversationTypeOK
  <2>3. loc[s] \in Local /\ loc[s].cached \in Seq(Nat) /\ loc[s].window \in Seq(Nat)
    BY RequestTypes DEF Local
  <2>4. CASE Context(s)
    BY <2>4, RequestTypes DEF Context, rows, bounds, asking, ConversationTypeOK, Location
  <2>5. CASE Lrange(s)
    <3>1. Moves
      BY <2>2, <2>3, <2>5, RequestTypes, LocalTypes, EmptySeq DEF Lrange, Location
    <3>2. faults' \in 0 .. MaxFaults
      BY <2>5, FaultType DEF Lrange, ConversationTypeOK
    <3> QED  BY <2>5, <3>1, <3>2 DEF Lrange, rows, asking, ConversationTypeOK
  <2>6. CASE Hit(s)
    <3>1. Moves
      BY <2>3, <2>6, RequestTypes, LocalTypes DEF Hit, Location
    <3> QED  BY <2>6, <3>1 DEF Hit, rows, bounds, asking, ConversationTypeOK
  <2>7. CASE LoadFromPostgres(s)
    <3>1. Moves
      BY <2>2, <2>3, <2>7, RequestTypes, LocalTypes DEF LoadFromPostgres, Location
    <3>2. faults' \in 0 .. MaxFaults
      BY <2>7, FaultType DEF LoadFromPostgres, ConversationTypeOK
    <3> QED  BY <2>7, <3>1, <3>2 DEF LoadFromPostgres, rows, asking, ConversationTypeOK
  <2>8. CASE Replace(s)
    <3>1. Moves
      BY <2>8, RequestTypes DEF Replace, Location, ConversationTypeOK
    <3>2. cache' \in Seq(Nat)
      BY <2>1, <2>3, <2>8, LastOfProperties DEF Replace, ConversationTypeOK
    <3>3. faults' \in 0 .. MaxFaults
      BY <2>8, FaultType DEF Replace, ConversationTypeOK
    <3> QED  BY <2>8, <3>1, <3>2, <3>3 DEF Replace, rows, asking, ConversationTypeOK
  <2> QED  BY <1>2, <2>4, <2>5, <2>6, <2>7, <2>8
<1>3. ASSUME NEW s \in Slot, AppendUser(s) \/ AppendAnswer(s) PROVE Scalars /\ Moves /\ cache' \in Seq(Nat)
  <2>1. loc[s] \in Local /\ loc[s].chosen \subseteq Nat
    BY RequestTypes DEF Local
  <2>2. PICK id \in Nat : Push(id)
    BY <1>3, <2>1 DEF AppendUser, AppendAnswer
  <2>3. Append(cache, id) \in Seq(Nat)
    BY DEF ConversationTypeOK
  <2>4. cache' \in Seq(Nat) /\ faults' \in 0 .. MaxFaults
    <3>1. LastOf(Append(cache, id), Window) \in Seq(Nat)
      BY <2>3, LastOfProperties, Bounds
    <3> QED  BY <2>2, <3>1, FaultType DEF Push, ConversationTypeOK
  <2>5. Moves
    <3>1. CASE AppendUser(s)
      BY <2>1, <3>1, RequestTypes, LocalTypes DEF AppendUser, Location
    <3>2. CASE AppendAnswer(s)
      BY <3>2, RequestTypes, LocalTypes DEF AppendAnswer, Location
    <3> QED  BY <1>3, <3>1, <3>2
  <2> QED  BY <1>3, <2>4, <2>5 DEF AppendUser, AppendAnswer, rows, asking, ConversationTypeOK
<1>4. ASSUME NEW s \in Slot, CommitUser(s) \/ CommitAnswer(s) PROVE Scalars /\ Moves /\ cache' \in Seq(Nat)
  <2>1. Latest + 1 \in Nat
    BY LatestIsNat DEF ConversationTypeOK
  <2>2. CASE CommitUser(s)
    <3>1. Moves
      BY <2>1, <2>2, RequestTypes, LocalTypes DEF CommitUser, Location
    <3> QED  BY <2>2, <3>1 DEF CommitUser, bounds, asking, ConversationTypeOK
  <2>3. CASE CommitAnswer(s)
    <3>1. Moves
      BY <2>1, <2>3, RequestTypes, LocalTypes DEF CommitAnswer, Location
    <3> QED  BY <2>3, <3>1 DEF CommitAnswer, bounds, asking, ConversationTypeOK
  <2> QED  BY <1>4, <2>2, <2>3
<1>5. ASSUME NEW s \in Slot, ReadPending(s) PROVE Scalars /\ Moves /\ cache' \in Seq(Nat)
  <2> DEFINE some == Effective(PendingRows)
             picked == {i \in some : Cardinality({j \in some : j > i}) < Batch}
  <2>1. PendingRows \subseteq Nat /\ picked \subseteq Nat
    BY LatestIsNat DEF PendingRows, Effective, ConversationTypeOK
  <2>2. \/ Set(s, [Blank EXCEPT !.pending = PendingRows, !.chosen = picked]) /\ Goto(s, "extract")
        \/ Set(s, Blank) /\ Goto(s, "answer")
    BY <1>5 DEF ReadPending
  <2> HIDE DEF picked
  <2>3. Moves
    BY <2>1, <2>2, RequestTypes, LocalTypes DEF Location
  <2> QED  BY <1>5, <2>3 DEF ReadPending, rows, bounds, asking, ConversationTypeOK
<1>6. ASSUME NEW s \in Slot, Extract(s) PROVE Scalars /\ Moves /\ cache' \in Seq(Nat)
  <2>1. Moves
    BY <1>6, RequestTypes, LocalTypes DEF Extract, Location
  <2> QED  BY <1>6, <2>1 DEF Extract, bounds, asking, ConversationTypeOK
<1>7. ASSUME NEW s \in Slot, Fail(s) PROVE Scalars /\ Moves /\ cache' \in Seq(Nat)
  <2>1. Moves
    BY <1>7, RequestTypes, LocalTypes DEF Fail, Location
  <2> QED  BY <1>7, <2>1 DEF Fail, rows, bounds, asking, ConversationTypeOK
<1>8. ASSUME DeleteConversation \/ DeleteShortTermMemory \/ ClearMemories \/ Expire \/ Evict \/ UNCHANGED vars
      PROVE  Scalars /\ Moves /\ cache' \in Seq(Nat)
  <2>1. Moves
    BY <1>8 DEF DeleteConversation, DeleteShortTermMemory, ClearMemories, Expire, Evict, vars, request,
                ConversationTypeOK
  <2>2. faults' \in 0 .. MaxFaults
    BY <1>8, FaultType DEF DeleteConversation, DeleteShortTermMemory, ClearMemories, Expire, Evict, vars,
                bounds, ConversationTypeOK
  <2>3. cache' \in Seq(Nat)
    BY <1>8, EmptySeq DEF DeleteConversation, DeleteShortTermMemory, ClearMemories, Expire, Evict, vars,
                ConversationTypeOK
  <2> QED
    BY <1>8, <2>1, <2>2, <2>3 DEF DeleteConversation, DeleteShortTermMemory, ClearMemories, Expire, Evict,
                vars, rows, bounds, asking, ConversationTypeOK
<1>9. Scalars /\ Moves /\ cache' \in Seq(Nat)
  BY <1>1, <1>2, <1>3, <1>4, <1>5, <1>6, <1>7, <1>8 DEF Next, Work
<1> QED  BY <1>9 DEF ConversationTypeOK

(* Whatever the variables hold is of its type (short_term_memory.py,
   rag_service.py).                                                        *)
THEOREM TypesOfConversation == Spec => []ConversationTypeOK
<1>1. Init => SummaryInv /\ ConversationTypeOK
  BY SummaryInit, TypeInit
<1>2. SummaryInv /\ ConversationTypeOK /\ [Next]_vars => SummaryInv' /\ ConversationTypeOK'
  BY SummaryInvStep, TypeStep DEF SummaryInv
<1> QED  BY <1>1, <1>2, PTL DEF Spec

-----------------------------------------------------------------------------
(* Requests that follow one another. *)
Idle(s) == pc[s] = "idle"

(* A step of one request leaves the others where they are. *)
LEMMA OthersStay ==
    ASSUME ConversationTypeOK, NEW s \in Slot, Begin(s) \/ Work(s)
    PROVE  /\ \A t \in Slot \ {s} : pc'[t] = pc[t] /\ loc'[t] = loc[t]
           /\ Work(s) => ~Idle(s) /\ overlapped' = overlapped
<1>1. DOMAIN pc = Slot /\ DOMAIN loc = Slot
  BY DEF ConversationTypeOK, Shape
<1>2. CASE Begin(s)
  <2>1. Idle(s)
    BY <1>2 DEF Begin, Idle
  <2>2. ~Work(s)
    BY <2>1 DEF Work, Idle, Context, Lrange, Hit, LoadFromPostgres, Replace, CommitUser, AppendUser,
                ReadPending, Extract, CommitAnswer, AppendAnswer, Fail
  <2> QED  BY <1>1, <1>2, <2>2 DEF Begin, Goto, Set
<1>3. CASE Context(s) \/ Replace(s) \/ Lrange(s) \/ Hit(s) \/ LoadFromPostgres(s)
  BY <1>1, <1>3 DEF Context, Replace, Lrange, Hit, LoadFromPostgres, Goto, Set, bounds, asking, Idle
<1>4. CASE CommitUser(s) \/ AppendUser(s) \/ ReadPending(s)
  <2>1. UNCHANGED overlapped /\ ~Idle(s)
    BY <1>4 DEF CommitUser, AppendUser, ReadPending, bounds, asking, Idle
  <2>2. CASE CommitUser(s) \/ AppendUser(s)
    BY <1>1, <2>1, <2>2 DEF CommitUser, AppendUser, Goto, Set
  <2>3. CASE ReadPending(s)
    BY <1>1, <2>1, <2>3 DEF ReadPending, Goto, Set
  <2> QED  BY <1>4, <2>2, <2>3
<1>5. CASE Extract(s) \/ CommitAnswer(s) \/ AppendAnswer(s) \/ Fail(s)
  BY <1>1, <1>5 DEF Extract, CommitAnswer, AppendAnswer, Fail, Goto, Set, bounds, asking, Idle
<1> QED  BY <1>2, <1>3, <1>4, <1>5 DEF Work

(* Without requests that overlap the others are idle. *)
LEMMA Alone ==
    ASSUME ConversationTypeOK, Serial, NEW s \in Slot, Begin(s) \/ Work(s), ~overlapped'
    PROVE  ~overlapped /\ \A t \in Slot \ {s} : Idle(t) /\ Idle(t)'
<1>1. CASE Begin(s)
  <2>1. ~overlapped /\ \A t \in Slot : pc[t] = "idle"
    BY <1>1 DEF Begin
  <2> QED  BY <1>1, <2>1, OthersStay DEF Idle
<1>2. CASE Work(s)
  BY <1>2, OthersStay DEF Serial, Idle
<1> QED  BY <1>1, <1>2

(* Steps of nobody: the deletion, the cleaning and the cache's. *)
Environment == DeleteConversation \/ DeleteShortTermMemory \/ ClearMemories \/ Expire \/ Evict \/ UNCHANGED vars

LEMMA EnvironmentStays ==
    ASSUME Environment
    PROVE  UNCHANGED <<pc, draft, loc, useMemory, overlapped>>
BY DEF Environment, DeleteConversation, DeleteShortTermMemory, ClearMemories, Expire, Evict, vars,
       request, bounds, asking

LEMMA NextCases ==
    ASSUME [Next]_vars
    PROVE  Environment \/ \E s \in Slot : Begin(s) \/ Work(s)
BY DEF Next, Environment

LEMMA SerialStep == ConversationTypeOK /\ Serial /\ [Next]_vars => Serial'
<1> SUFFICES ASSUME ConversationTypeOK, Serial, [Next]_vars PROVE Serial'
  OBVIOUS
<1>1. ASSUME NEW s \in Slot, Begin(s) \/ Work(s) PROVE Serial'
  BY <1>1, Alone DEF Serial, Idle
<1>2. CASE Environment
  BY <1>2, EnvironmentStays DEF Serial
<1> QED  BY <1>1, <1>2, NextCases

-----------------------------------------------------------------------------
(* What an extraction counts. *)
LEMMA PendingIsUnmarked ==
    /\ \A i \in PendingRows : i \in 1 .. Latest /\ ~msgs[i].marked
    /\ \A i \in Effective(PendingRows) : i \in PendingRows
BY DEF PendingRows, Effective

(* An extraction that counts a message marks it. *)
LEMMA MarkCounts ==
    ASSUME Shape, NEW i \in 1 .. Latest, NEW pending, NEW chosen, NEW found \in BOOLEAN,
           chosen \subseteq pending, msgs[i].times > 0 => msgs[i].marked
    PROVE  LET k == Mark(i, pending, chosen, found)
           IN  /\ k.times > 0 => k.marked
               /\ (i \in pending => ~msgs[i].marked) /\ msgs[i].times <= 1 => k.times <= 1
<1>1. msgs[i] \in Message
  BY DEF Shape, Latest
<1> DEFINE k == Mark(i, pending, chosen, found)
<1>2. /\ k.marked <=> (msgs[i].marked \/ i \in pending)
      /\ k.times = IF found /\ i \in chosen THEN msgs[i].times + 1 ELSE msgs[i].times
  BY <1>1 DEF Mark, Message
<1>3. msgs[i].times \in Nat
  BY <1>1 DEF Message
<1> HIDE DEF k
<1>4. ASSUME k.times > 0 PROVE k.marked
  <2>1. CASE i \in pending
    BY <1>2, <2>1
  <2>2. CASE i \notin pending
    <3>1. k.times = msgs[i].times
      BY <1>2, <2>2
    <3>2. msgs[i].marked
      BY <1>4, <3>1, Zenon
    <3> QED  BY <1>2, <3>2
  <2> QED  BY <2>1, <2>2
<1>5. ASSUME i \in pending => ~msgs[i].marked, msgs[i].times <= 1 PROVE k.times <= 1
  <2>1. CASE i \in chosen
    <3>1. ~(msgs[i].times > 0)
      BY <1>5, <2>1
    <3> QED  BY <1>2, <1>3, <3>1
  <2>2. CASE i \notin chosen
    BY <1>2, <1>5, <2>2
  <2> QED  BY <2>1, <2>2
<1> QED  BY <1>4, <1>5 DEF k

LEMMA CountedStep == ConversationTypeOK /\ Serial /\ Counted /\ [Next]_vars => Counted'
<1> SUFFICES ASSUME ConversationTypeOK, Serial, Counted, [Next]_vars PROVE Counted'
  OBVIOUS
<1>0. Shape
  BY DEF ConversationTypeOK
<1> DEFINE Reads(s) == pc[s] = "extract" =>
                          /\ loc[s].chosen \subseteq loc[s].pending
                          /\ ~overlapped => \A i \in loc[s].pending : i \in 1 .. Latest => ~msgs[i].marked
<1>1. ASSUME NEW s \in Slot, Begin(s) \/ Work(s), CountedOnce', Reads(s)' PROVE Counted'
  <2>1. ASSUME NEW t \in Slot \ {s}, pc'[t] = "extract" PROVE loc'[t].chosen \subseteq loc'[t].pending
    BY <1>1, <2>1, OthersStay DEF Counted
  <2>2. ASSUME ~overlapped', NEW t \in Slot \ {s} PROVE pc'[t] # "extract"
    BY <1>1, <2>2, Alone DEF Idle
  <2> QED  BY <1>1, <2>1, <2>2 DEF Counted
<1>2. ASSUME NEW s \in Slot, CommitUser(s) \/ CommitAnswer(s) PROVE Counted'
  <2>1. PICK m \in Message : m.times = 0 /\ msgs' = Append(msgs, m)
    <3>1. CASE CommitUser(s)
      <4>1. PICK size \in {"command", "short", "long"} : msgs' = Append(msgs, User(size, useMemory[s]))
        BY <3>1, ConversationAssumption DEF CommitUser
      <4>2. useMemory[s] \in BOOLEAN
        BY <1>0 DEF Shape
      <4> QED  BY <4>1, <4>2, NewMessagesHonest DEF User
    <3>2. CASE CommitAnswer(s)
      BY <3>2, NewMessagesHonest DEF CommitAnswer, Assistant
    <3> QED  BY <1>2, <3>1, <3>2
  <2>2. /\ Latest' = Latest + 1 /\ Latest \in Nat
        /\ \A i \in 1 .. Latest : msgs'[i] = msgs[i]
        /\ msgs'[Latest + 1] = m
    BY <1>0, <2>1 DEF Shape, Latest
  <2>3. overlapped' = overlapped /\ pc'[s] # "extract"
    BY <1>0, <1>2 DEF CommitUser, CommitAnswer, bounds, asking, Goto, Shape
  <2>4. ASSUME NEW i \in 1 .. Latest'
        PROVE  (msgs'[i].times > 0 => msgs'[i].marked) /\ (~overlapped' => msgs'[i].times <= 1)
    <3>1. CASE i \in 1 .. Latest
      BY <2>2, <2>3, <3>1 DEF Counted, CountedOnce
    <3>2. CASE i = Latest + 1
      <4>1. msgs'[i].times = 0
        BY <2>1, <2>2, <3>2
      <4> QED  BY <4>1
    <3> QED  BY <2>2, <3>1, <3>2
  <2>5. CountedOnce'
    BY <2>4 DEF CountedOnce
  <2> QED  BY <1>1, <1>2, <2>3, <2>5 DEF Work
<1>3. ASSUME NEW s \in Slot, Extract(s) PROVE Counted'
  <2>1. PICK found \in BOOLEAN :
           msgs' = [i \in 1 .. Latest |-> Mark(i, loc[s].pending, loc[s].chosen, found)]
    BY <1>3 DEF Extract
  <2>2. pc[s] = "extract" /\ pc'[s] # "extract" /\ overlapped' = overlapped
    BY <1>0, <1>3 DEF Extract, bounds, asking, Goto, Shape
  <2>3. Latest' = Latest /\ \A i \in 1 .. Latest : msgs'[i] = Mark(i, loc[s].pending, loc[s].chosen, found)
    BY <1>0, <2>1 DEF Latest, Shape
  <2>4. loc[s].chosen \subseteq loc[s].pending
    BY <2>2 DEF Counted
  <2>5. ASSUME NEW i \in 1 .. Latest
        PROVE  (msgs'[i].times > 0 => msgs'[i].marked) /\ (~overlapped => msgs'[i].times <= 1)
    BY <1>0, <2>2, <2>3, <2>4, MarkCounts DEF Counted, CountedOnce
  <2>6. CountedOnce'
    BY <2>2, <2>3, <2>5 DEF CountedOnce
  <2> QED  BY <1>1, <1>3, <2>2, <2>6 DEF Work
<1>4. ASSUME NEW s \in Slot,
             \/ Begin(s) \/ Context(s) \/ Lrange(s) \/ Hit(s) \/ LoadFromPostgres(s) \/ Replace(s)
             \/ AppendUser(s) \/ ReadPending(s) \/ AppendAnswer(s) \/ Fail(s)
      PROVE  Counted'
  <2>1. UNCHANGED msgs /\ Latest' = Latest
    BY <1>4 DEF Begin, Context, Lrange, Hit, LoadFromPostgres, Replace, AppendUser, ReadPending,
                AppendAnswer, Fail, rows, Latest
  <2>2. Begin(s) \/ Work(s)
    BY <1>4 DEF Work
  <2>3. ~overlapped' => ~overlapped
    BY <2>2, Alone
  <2>4. CountedOnce'
    BY <2>1, <2>3 DEF Counted, CountedOnce
  <2>5. CASE ReadPending(s)
    <3> DEFINE some == Effective(PendingRows)
               picked == {i \in some : Cardinality({j \in some : j > i}) < Batch}
    <3>1. \/ Set(s, [Blank EXCEPT !.pending = PendingRows, !.chosen = picked])
          \/ pc' = [pc EXCEPT ![s] = "answer"]
      BY <2>5 DEF ReadPending, Goto
    <3>2. picked \subseteq PendingRows
      BY PendingIsUnmarked
    <3> HIDE DEF some, picked
    <3>3. /\ [Blank EXCEPT !.pending = PendingRows, !.chosen = picked].chosen = picked
          /\ [Blank EXCEPT !.pending = PendingRows, !.chosen = picked].pending = PendingRows
      BY DEF Blank
    <3>4. CASE Set(s, [Blank EXCEPT !.pending = PendingRows, !.chosen = picked])
      <4>1. loc'[s].chosen = picked /\ loc'[s].pending = PendingRows
        BY <1>0, <3>3, <3>4 DEF Set, Shape
      <4>2. Reads(s)'
        BY <2>1, <3>2, <4>1, PendingIsUnmarked
      <4> QED  BY <1>1, <2>2, <2>4, <4>2
    <3>5. CASE pc' = [pc EXCEPT ![s] = "answer"]
      <4>1. pc'[s] # "extract"
        BY <1>0, <3>5 DEF Shape
      <4> QED  BY <1>1, <2>2, <2>4, <4>1
    <3> QED  BY <3>1, <3>4, <3>5
  <2>6. CASE ~ReadPending(s)
    <3>1. pc'[s] # "extract"
      <4>1. CASE Begin(s) \/ Context(s) \/ Lrange(s) \/ Replace(s)
        BY <1>0, <4>1, RequestTypes DEF Begin, Context, Lrange, Replace, Goto, Shape
      <4>2. CASE Hit(s) \/ LoadFromPostgres(s)
        BY <1>0, <4>2, RequestTypes DEF Hit, LoadFromPostgres, Goto, Shape
      <4>3. CASE AppendUser(s) \/ AppendAnswer(s) \/ Fail(s)
        BY <1>0, <4>3 DEF AppendUser, AppendAnswer, Fail, Goto, Shape
      <4> QED  BY <1>4, <2>6, <4>1, <4>2, <4>3
    <3> QED  BY <1>1, <2>2, <2>4, <3>1
  <2> QED  BY <2>5, <2>6
<1>5. CASE Environment
  <2>1. UNCHANGED <<pc, loc, overlapped>>
    BY <1>5, EnvironmentStays
  <2>2. CASE DeleteConversation
    <3>1. Latest' = 0
      BY <2>2 DEF DeleteConversation, Latest
    <3> QED  BY <2>1, <3>1 DEF Counted, CountedOnce
  <2>3. CASE ~DeleteConversation
    <3>1. UNCHANGED msgs /\ Latest' = Latest
      BY <1>5, <2>3 DEF Environment, DeleteShortTermMemory, ClearMemories, Expire, Evict, vars, rows, Latest
    <3> QED  BY <2>1, <3>1 DEF Counted, CountedOnce
  <2> QED  BY <2>2, <2>3
<1> QED
  BY <1>2, <1>3, <1>4, <1>5, NextCases DEF Work

-----------------------------------------------------------------------------
(* What a request sees while nothing disturbs it. *)

(* The claims of CacheFollows, WindowFollows and FewLeft about one request. *)
Follows(s) ==
    /\ pc[s] \in Behind => loc[s].chosen = {Latest} /\ Latest > 0 /\ Full(Latest - 1)
    /\ pc[s] \in Filled => Full(Latest)
    /\ pc[s] \notin Behind => cache = <<>> \/ Full(Latest)
    /\ pc[s] = "context" => loc[s].window = <<>>
    /\ pc[s] = "check" => loc[s].cached = LastOf(cache, Limit(s))
    /\ pc[s] = "replace" => loc[s].window = Newest(Limit(s)) /\ Latest > 0
    /\ pc[s] = "commit" /\ conv = "live" => loc[s].window = Newest(History)
    /\ \/ pc[s] \in {"lrange", "check", "replace"} /\ loc[s].mode = "history"
       \/ pc[s] = "commit" /\ conv = "live"
       => Latest - draft[s].until <= Threshold - 1
    /\ pc[s] = "append" => loc[s].mode = "memory"

(* A conversation without messages, and one whose window is to be cleaned. *)
RowsFollow ==
    /\ cleaning => conv = "deleted"
    /\ conv = "none" => Latest = 0

(* Nothing disturbs a request before or after its step, the others are
   idle, and its own claims are all there are.                             *)
LEMMA OnlyOne ==
    ASSUME ConversationTypeOK, Serial, Recent, NEW s \in Slot, Begin(s) \/ Work(s), RowsFollow',
           faults' = 0 => faults = 0, conv' # "deleted" => conv # "deleted",
           Undisturbed /\ Undisturbed' /\ (\A t \in Slot \ {s} : Idle(t)) /\ Follows(s) => Follows(s)'
    PROVE  Recent'
<1> SUFFICES ASSUME Undisturbed' PROVE CacheFollows' /\ WindowFollows' /\ FewLeft'
  BY Zenon DEF Recent, RowsFollow
<1>1. Undisturbed /\ \A t \in Slot \ {s} : Idle(t) /\ Idle(t)'
  BY Alone DEF Undisturbed
<1>2. \A t \in Slot \ {s} : pc[t] \notin Behind
  BY <1>1 DEF Idle, Behind
<1>3. Follows(s)
  BY <1>1, <1>2, Zenon DEF Recent, CacheFollows, WindowFollows, FewLeft, Follows
<1>4. Follows(s)'
  BY <1>1, <1>3
<1>5. \A t \in Slot \ {s} : pc'[t] = "idle"
  BY <1>1 DEF Idle
<1>6. CacheFollows'
  BY <1>4, <1>5 DEF CacheFollows, Follows, Behind, Filled
<1>7. WindowFollows'
  BY <1>4, <1>5 DEF WindowFollows, Follows
<1>8. FewLeft'
  BY <1>4, <1>5 DEF FewLeft, Follows
<1> QED  BY <1>6, <1>7, <1>8

LEMMA BeginFollows ==
    ASSUME ConversationTypeOK, Serial, Recent, NEW s \in Slot, Begin(s)
    PROVE  Recent'
<1>1. UNCHANGED <<conv, msgs, cache, cleaning, faults>> /\ Latest' = Latest
  BY DEF Begin, rows, Latest
<1>2. pc'[s] = IF conv = "none" THEN "commit" ELSE "context"
  BY RequestTypes DEF Begin, Location
<1>3. RowsFollow'
  BY <1>1 DEF Recent, RowsFollow
<1>4. ASSUME Follows(s) PROVE Follows(s)'
  <2>1. pc[s] = "idle"
    BY DEF Begin
  <2>2. cache = <<>> \/ Full(Latest)
    BY <1>4, <2>1 DEF Follows, Behind
  <2>3. conv = "none" => Full(Latest)
    <3> SUFFICES ASSUME conv = "none" PROVE Full(Latest)
      OBVIOUS
    <3>1. Latest = 0
      BY DEF Recent
    <3>2. CASE cache = <<>>
      BY <3>1, <3>2 DEF Full, IsTail
    <3> QED  BY <2>2, <3>2
  <2>4. loc'[s].window = <<>>
    <3>1. loc'[s] = Blank
      BY DEF Begin, Set, ConversationTypeOK
    <3> QED  BY <3>1 DEF Blank
  <2> QED  BY <1>1, <1>2, <2>2, <2>3, <2>4 DEF Follows, Behind, Filled, Full, IsTail
<1> QED  BY <1>1, <1>3, <1>4, OnlyOne

(* Compaction leaves fewer than the threshold behind the summary. *)
LEMMA CompactionLeavesFew ==
    ASSUME ConversationTypeOK, NEW s \in Slot, Context(s)
    PROVE  Latest - draft'[s].until <= Threshold - 1
<1> DEFINE n == Cardinality({i \in 1 .. Latest : i > draft[s].until})
<1>1. Latest \in Nat /\ draft[s].until \in Nat /\ draft \in [Slot -> DraftType]
  BY LatestIsNat DEF ConversationTypeOK, Shape, DraftType
<1>2. {i \in 1 .. Latest : i > draft[s].until} = draft[s].until + 1 .. Latest
  BY <1>1
<1>3. Cardinality(draft[s].until + 1 .. Latest)
        = IF draft[s].until + 1 > Latest THEN 0 ELSE Latest - (draft[s].until + 1) + 1
  <2>1. draft[s].until + 1 \in Int /\ Latest \in Int
    BY <1>1
  <2> QED  BY <2>1, FS_Interval
<1>4. n \in Nat /\ Latest - draft[s].until <= n
  <2>1. n = IF draft[s].until + 1 > Latest THEN 0 ELSE Latest - (draft[s].until + 1) + 1
    BY <1>2, <1>3
  <2> HIDE DEF n
  <2> QED  BY <1>1, <2>1
<1>5. PICK long \in BOOLEAN :
         draft' = IF Compacted(n, long) = 0 THEN draft
                  ELSE [draft EXCEPT ![s] = Merged(@, Compacted(n, long))]
  BY DEF Context
<1> HIDE DEF n
<1>6. Compacted(n, long) \in Nat
  BY <1>4, CompactedIsNat
<1>7. draft'[s].until = draft[s].until + Compacted(n, long)
  <2>1. Merged(draft[s], Compacted(n, long)).until = draft[s].until + Compacted(n, long)
    BY DEF Merged
  <2>2. CASE Compacted(n, long) = 0
    BY <1>1, <1>5, <2>2
  <2>3. CASE Compacted(n, long) # 0
    BY <1>1, <1>5, <2>1, <2>3
  <2> QED  BY <2>2, <2>3
<1>8. CASE n >= Threshold
  <2>1. Compacted(n, long) = n - History
    BY <1>4, <1>8, Bounds DEF Compacted
  <2> QED  BY <1>1, <1>4, <1>7, <2>1, Bounds
<1>9. CASE n < Threshold
  BY <1>1, <1>4, <1>6, <1>7, <1>9, Bounds
<1> QED  BY <1>4, <1>8, <1>9, Bounds

LEMMA ContextFollows ==
    ASSUME ConversationTypeOK, Serial, Recent, NEW s \in Slot, Context(s)
    PROVE  Recent'
<1>1. UNCHANGED <<conv, msgs, cache, cleaning, faults, loc>> /\ Latest' = Latest
  BY DEF Context, rows, bounds, Latest
<1>2. pc[s] = "context" /\ pc'[s] = IF History = 0 THEN "commit" ELSE "lrange"
  BY RequestTypes DEF Context, Location
<1>3. RowsFollow'
  BY <1>1 DEF Recent, RowsFollow
<1>4. ASSUME Follows(s) PROVE Follows(s)'
  <2>1. (cache = <<>> \/ Full(Latest)) /\ loc[s].window = <<>>
    BY <1>2, <1>4 DEF Follows, Behind
  <2>2. History = 0 => Full(Latest)
    <3> SUFFICES ASSUME History = 0 PROVE Full(Latest)
      OBVIOUS
    <3>1. IsTail(<<>>, Latest) /\ Len(<<>>) >= History
      BY LatestIsNat DEF IsTail, ConversationTypeOK
    <3> QED  BY <2>1, <3>1 DEF Full
  <2>3. History = 0 => Newest(History) = <<>>
    <3> SUFFICES ASSUME History = 0 PROVE Newest(History) = <<>>
      OBVIOUS
    <3>1. Newest(History) \in Seq(Nat) /\ Len(Newest(History)) = IF Latest <= History THEN Latest ELSE History
      BY Bounds, NewestIsTail DEF ConversationTypeOK
    <3>2. Len(Newest(History)) = 0
      BY <3>1, LatestIsNat DEF ConversationTypeOK
    <3> QED  BY <3>1, <3>2, EmptySeq
  <2>4. Newest(History)' = Newest(History)
    BY <1>1 DEF Newest
  <2> QED  BY <1>1, <1>2, <2>1, <2>2, <2>3, <2>4, CompactionLeavesFew DEF Follows, Behind, Filled, Full, IsTail
<1> QED  BY <1>1, <1>3, <1>4, OnlyOne DEF Work

LEMMA LrangeFollows ==
    ASSUME ConversationTypeOK, Serial, Recent, NEW s \in Slot, Lrange(s)
    PROVE  Recent'
<1>1. UNCHANGED <<conv, msgs, cache, cleaning, draft>> /\ Latest' = Latest
  BY DEF Lrange, rows, Latest
<1>2. pc'[s] = "check" /\ pc[s] = "lrange"
  BY RequestTypes DEF Lrange, Location
<1>3. RowsFollow'
  BY <1>1 DEF Recent, RowsFollow
<1>4. faults' = 0 => faults = 0 /\ Set(s, [loc[s] EXCEPT !.cached = LastOf(cache, Limit(s))])
  BY FaultType DEF Lrange
<1>5. ASSUME Follows(s), Undisturbed' PROVE Follows(s)'
  <2>1. cache = <<>> \/ Full(Latest)
    BY <1>2, <1>5 DEF Follows, Behind
  <2>2. loc'[s] = [loc[s] EXCEPT !.cached = LastOf(cache, Limit(s))]
    BY <1>4, <1>5 DEF Undisturbed, Set, ConversationTypeOK
  <2>3. loc'[s].cached = LastOf(cache, Limit(s)) /\ loc'[s].mode = loc[s].mode
    BY <2>2, RequestTypes DEF Local
  <2>4. Limit(s)' = Limit(s)
    BY <2>3 DEF Limit
  <2> QED  BY <1>1, <1>2, <1>5, <2>1, <2>3, <2>4 DEF Follows, Behind, Filled, Full, IsTail
<1> QED  BY <1>1, <1>3, <1>4, <1>5, OnlyOne DEF Work

(* A cached window that ends with the newest message is the history. *)
LEMMA HitIsNewest ==
    ASSUME ConversationTypeOK, cache = <<>> \/ Full(Latest), LastOf(cache, History) # <<>>
    PROVE  LastOf(cache, History) = Newest(History)
<1>1. cache \in Seq(Nat) /\ Latest \in Nat /\ Shape
  BY LatestIsNat DEF ConversationTypeOK
<1>2. LastOf(cache, History) \in Seq(Nat) /\ Len(LastOf(cache, History)) = IF Len(cache) <= History THEN Len(cache) ELSE History
  BY <1>1, Bounds, LastOfProperties
<1>3. Len(LastOf(cache, History)) # 0
  BY <1>2, EmptySeq
<1>4. cache # <<>>
  BY <1>2, <1>3, Bounds
<1>5. Full(Latest)
  BY <1>4
<1>6. Len(LastOf(cache, History)) = IF Latest <= History THEN Latest ELSE History
  BY <1>1, <1>2, <1>5, Bounds DEF Full, IsTail
<1>7. IsTail(LastOf(cache, History), Latest)
  BY <1>1, <1>5, Bounds, TailOfTail DEF Full
<1>8. Newest(History) \in Seq(Nat) /\ IsTail(Newest(History), Latest) /\ Len(Newest(History)) = Len(LastOf(cache, History))
  BY <1>1, <1>6, Bounds, NewestIsTail
<1> QED  BY <1>1, <1>2, <1>7, <1>8, TailsAgree

LEMMA AfterIsCommit ==
    ASSUME NEW s, After(s) = "commit"
    PROVE  loc[s].mode = "history" /\ Limit(s) = History
BY DEF After, Limit

LEMMA HitFollows ==
    ASSUME ConversationTypeOK, Serial, Recent, NEW s \in Slot, Hit(s)
    PROVE  Recent'
<1>1. UNCHANGED <<conv, msgs, cache, cleaning, draft, faults>> /\ Latest' = Latest
  BY DEF Hit, rows, bounds, Latest
<1>2. pc'[s] = After(s) /\ After(s) \in {"commit", "pending"} /\ pc[s] = "check"
  BY RequestTypes DEF Hit, Location
<1>3. RowsFollow'
  BY <1>1 DEF Recent, RowsFollow
<1>4. ASSUME Follows(s) PROVE Follows(s)'
  <2>1. loc[s].cached = LastOf(cache, Limit(s)) /\ (cache = <<>> \/ Full(Latest))
    BY <1>2, <1>4 DEF Follows, Behind
  <2>2. loc[s].cached # <<>>
    BY DEF Hit, Fresh
  <2>3. cache # <<>>
    <3> SUFFICES ASSUME cache = <<>> PROVE FALSE
      OBVIOUS
    <3>1. Limit(s) \in Nat /\ cache \in Seq(Nat)
      BY Bounds, RequestTypes DEF ConversationTypeOK
    <3>2. LastOf(cache, Limit(s)) \in Seq(Nat) /\ Len(LastOf(cache, Limit(s))) = 0
      <4>1. Len(cache) = 0 /\ Len(cache) <= Limit(s)
        BY <3>1
      <4> QED  BY <3>1, <4>1, LastOfProperties
    <3> QED  BY <2>1, <2>2, <3>2, EmptySeq
  <2>4. Full(Latest)
    BY <2>1, <2>3
  <2>5. loc'[s] = [loc[s] EXCEPT !.window = loc[s].cached, !.cached = <<>>]
    BY DEF Hit, Set, ConversationTypeOK
  <2>6. loc'[s].window = loc[s].cached
    BY <2>5, RequestTypes DEF Local
  <2>7. pc'[s] = "commit" => /\ loc'[s].window = Newest(History)
                             /\ Latest - draft[s].until <= Threshold - 1
    BY <1>2, <1>4, <2>1, <2>2, <2>6, AfterIsCommit, HitIsNewest DEF Follows
  <2>8. Newest(History)' = Newest(History)
    BY <1>1 DEF Newest
  <2> QED  BY <1>1, <1>2, <2>4, <2>7, <2>8 DEF Follows, Behind, Filled, Full, IsTail
<1> QED  BY <1>1, <1>3, <1>4, OnlyOne DEF Work

LEMMA LoadFollows ==
    ASSUME ConversationTypeOK, Serial, Recent, NEW s \in Slot, LoadFromPostgres(s)
    PROVE  Recent'
<1>1. UNCHANGED <<conv, msgs, cache, cleaning, draft>> /\ Latest' = Latest /\ Latest \in Nat
  BY LatestIsNat DEF LoadFromPostgres, rows, Latest, ConversationTypeOK
<1>2. /\ pc'[s] = IF Latest = 0 THEN After(s) ELSE "replace"
      /\ After(s) \in {"commit", "pending"} /\ pc[s] = "check"
  BY RequestTypes DEF LoadFromPostgres, Location
<1>3. RowsFollow'
  BY <1>1 DEF Recent, RowsFollow
<1>4. faults' = 0 => faults = 0
  BY FaultType DEF LoadFromPostgres
<1>5. ASSUME Follows(s) PROVE Follows(s)'
  <2>1. cache = <<>> \/ Full(Latest)
    BY <1>2, <1>5 DEF Follows, Behind
  <2>2. Latest = 0 => Full(Latest)
    BY <2>1 DEF Full, IsTail
  <2>3. loc'[s] = [loc[s] EXCEPT !.window = Newest(Limit(s)), !.cached = <<>>]
    BY DEF LoadFromPostgres, Set, ConversationTypeOK
  <2>4. loc'[s].window = Newest(Limit(s)) /\ loc'[s].mode = loc[s].mode
    BY <2>3, RequestTypes DEF Local
  <2>5. Limit(s)' = Limit(s) /\ \A k : Newest(k)' = Newest(k)
    BY <1>1, <2>4 DEF Limit, Newest
  <2>6. pc'[s] = "commit" => /\ loc'[s].window = Newest(History)
                             /\ Latest - draft[s].until <= Threshold - 1
    BY <1>2, <1>5, <2>4, AfterIsCommit DEF Follows
  <2>7. CASE Latest = 0
    BY <1>1, <1>2, <2>2, <2>5, <2>6, <2>7 DEF Follows, Behind, Filled, Full, IsTail
  <2>8. CASE Latest # 0
    <3>1. pc'[s] = "replace" /\ Latest > 0
      BY <1>1, <1>2, <2>8
    <3>2. loc'[s].mode = "history" => Latest - draft[s].until <= Threshold - 1
      BY <1>2, <1>5, <2>4 DEF Follows
    <3>3. loc'[s].window = Newest(Limit(s))'
      BY <2>4, <2>5
    <3> QED  BY <1>1, <2>1, <3>1, <3>2, <3>3 DEF Follows, Behind, Filled, Full, IsTail
  <2> QED  BY <2>7, <2>8
<1> QED  BY <1>1, <1>3, <1>4, <1>5, OnlyOne DEF Work

LEMMA ReplaceFollows ==
    ASSUME ConversationTypeOK, Serial, Recent, NEW s \in Slot, Replace(s)
    PROVE  Recent'
<1>1. UNCHANGED <<conv, msgs, cleaning, draft, loc>> /\ Latest' = Latest /\ Shape
  BY DEF Replace, rows, Latest, ConversationTypeOK
<1>2. pc'[s] = After(s) /\ After(s) \in {"commit", "pending"} /\ pc[s] = "replace"
  BY RequestTypes DEF Replace, Location
<1>3. RowsFollow'
  BY <1>1 DEF Recent, RowsFollow
<1>4. faults' = 0 => faults = 0 /\ cache' = LastOf(loc[s].window, Window)
  BY FaultType DEF Replace
<1>5. ASSUME Follows(s), Undisturbed' PROVE Follows(s)'
  <2>1. loc[s].window = Newest(Limit(s)) /\ Limit(s) \in Nat /\ Limit(s) >= History
    BY <1>2, <1>5, RequestTypes, Bounds DEF Follows
  <2>2. /\ Newest(Limit(s)) \in Seq(Nat) /\ IsTail(Newest(Limit(s)), Latest)
        /\ Len(Newest(Limit(s))) = IF Latest <= Limit(s) THEN Latest ELSE Limit(s)
    BY <1>1, <2>1, NewestIsTail
  <2>3. cache' = LastOf(Newest(Limit(s)), Window) /\ Latest \in Nat
    BY <1>1, <1>4, <1>5, <2>1, LatestIsNat DEF Undisturbed
  <2>4. /\ IsTail(cache', Latest)
        /\ Len(cache') = IF Len(Newest(Limit(s))) <= Window THEN Len(Newest(Limit(s))) ELSE Window
    BY <2>2, <2>3, Bounds, TailOfTail, LastOfProperties
  <2>5. Len(cache') >= History \/ Len(cache') = Latest
    BY <2>1, <2>2, <2>3, <2>4, Bounds
  <2>6. Full(Latest)'
    BY <1>1, <2>4, <2>5 DEF Full, IsTail
  <2>7. pc'[s] = "commit" => /\ loc[s].window = Newest(History)
                             /\ Latest - draft[s].until <= Threshold - 1
    BY <1>2, <1>5, <2>1, AfterIsCommit DEF Follows
  <2>8. Newest(History)' = Newest(History)
    BY <1>1 DEF Newest
  <2> QED  BY <1>1, <1>2, <2>6, <2>7, <2>8 DEF Follows, Behind, Filled
<1> QED  BY <1>1, <1>3, <1>4, <1>5, OnlyOne DEF Work

(* A commit adds a message that the cache does not have yet. *)
LEMMA CommitFollows ==
    ASSUME ConversationTypeOK, Serial, Recent, NEW s \in Slot, CommitUser(s) \/ CommitAnswer(s)
    PROVE  Recent'
<1>1. /\ UNCHANGED <<cache, cleaning, faults>> /\ conv # "deleted" /\ conv' = "live"
      /\ pc[s] \in Filled /\ pc'[s] \in Behind
  BY RequestTypes DEF CommitUser, CommitAnswer, bounds, Filled, Behind, Location
<1>2. Latest' = Latest + 1 /\ Latest \in Nat
  BY LatestIsNat DEF CommitUser, CommitAnswer, Latest, ConversationTypeOK, Shape
<1>3. loc'[s].chosen = {Latest + 1} /\ (CommitUser(s) => loc'[s].mode = "memory")
  BY DEF CommitUser, CommitAnswer, Set, ConversationTypeOK, Blank
<1>4. CommitAnswer(s) => pc'[s] = "appendAnswer"
  BY RequestTypes DEF CommitAnswer, Location
<1>5. RowsFollow'
  BY <1>1, <1>2 DEF Recent, RowsFollow
<1>6. ASSUME Follows(s) PROVE Follows(s)'
  <2>1. Full(Latest)
    BY <1>1, <1>6 DEF Follows
  <2>2. Latest' - 1 = Latest /\ Latest' > 0
    BY <1>2
  <2>3. (Full(Latest - 1))'
    BY <1>1, <2>1, <2>2 DEF Full, IsTail
  <2>4. pc'[s] = "append" => loc'[s].mode = "memory"
    BY <1>3, <1>4
  <2> QED  BY <1>1, <1>2, <1>3, <2>2, <2>3, <2>4 DEF Follows, Behind, Filled
<1> QED  BY <1>1, <1>5, <1>6, OnlyOne DEF Work

(* An append brings the cache up to date. *)
LEMMA AppendFollows ==
    ASSUME ConversationTypeOK, Serial, Recent, NEW s \in Slot, AppendUser(s) \/ AppendAnswer(s)
    PROVE  Recent'
<1>1. UNCHANGED <<conv, msgs, cleaning>> /\ Latest' = Latest /\ pc[s] \in Behind
  BY DEF AppendUser, AppendAnswer, rows, Latest, Behind
<1>2. PICK id \in loc[s].chosen : Push(id)
  BY DEF AppendUser, AppendAnswer
<1>3. RowsFollow'
  BY <1>1 DEF Recent, RowsFollow
<1>4. faults' = 0 => faults = 0 /\ cache' = LastOf(Append(cache, id), Window)
  BY <1>2, FaultType DEF Push
<1>5. \/ pc'[s] \in {"answer", "idle"}
      \/ pc'[s] = "lrange" /\ pc[s] = "append" /\ loc'[s] = [loc[s] EXCEPT !.chosen = {}]
  BY RequestTypes DEF AppendUser, AppendAnswer, Location, Set, ConversationTypeOK
<1>6. ASSUME Follows(s), Undisturbed' PROVE Follows(s)'
  <2>1. id = Latest /\ Latest \in Nat \ {0} /\ Full(Latest - 1)
    BY <1>1, <1>2, <1>6, LatestIsNat DEF Follows, ConversationTypeOK
  <2>2. cache' = LastOf(Append(cache, Latest), Window) /\ cache \in Seq(Nat)
    BY <1>4, <1>6, <2>1 DEF Undisturbed, ConversationTypeOK
  <2>3. IsTail(cache', Latest) /\ (Len(cache') >= History \/ Len(cache') = Latest)
    BY <2>1, <2>2, PushedIsTail DEF Full
  <2>4. Full(Latest)'
    BY <1>1, <2>3 DEF Full, IsTail
  <2>5. pc'[s] = "lrange" => loc'[s].mode # "history"
    BY <1>5, <1>6, RequestTypes DEF Follows, Local
  <2> QED  BY <1>5, <2>4, <2>5 DEF Follows, Behind, Filled
<1> QED  BY <1>1, <1>3, <1>4, <1>6, OnlyOne DEF Work

(* The extraction and an error leave the cache and the number of messages. *)
LEMMA ExtractionFollows ==
    ASSUME ConversationTypeOK, Serial, Recent, NEW s \in Slot, ReadPending(s) \/ Extract(s) \/ Fail(s)
    PROVE  Recent'
<1>1. UNCHANGED <<conv, cache, cleaning, faults>>
  BY DEF ReadPending, Extract, Fail, rows, bounds
<1>2. Latest' = Latest
  BY DEF ReadPending, Extract, Fail, rows, Latest, ConversationTypeOK, Shape
<1>3. pc'[s] \in {"extract", "answer", "idle"} /\ (conv # "deleted" => pc[s] \in Filled)
  BY RequestTypes DEF ReadPending, Extract, Fail, Location, Filled
<1>4. RowsFollow'
  BY <1>1, <1>2 DEF Recent, RowsFollow
<1>5. ASSUME Follows(s), Undisturbed PROVE Follows(s)'
  <2>1. Full(Latest)
    BY <1>3, <1>5 DEF Follows, Undisturbed
  <2> QED  BY <1>1, <1>2, <1>3, <2>1 DEF Follows, Behind, Filled, Full, IsTail
<1> QED  BY <1>1, <1>4, <1>5, OnlyOne DEF Work

LEMMA EnvironmentFollows ==
    ASSUME ConversationTypeOK, Recent, Environment
    PROVE  Recent'
<1>1. UNCHANGED <<pc, draft, loc, overlapped>>
  BY EnvironmentStays
<1>2. CASE DeleteConversation
  BY <1>2 DEF DeleteConversation, Recent, Undisturbed
<1>3. CASE DeleteShortTermMemory
  BY <1>3 DEF DeleteShortTermMemory, Recent, Undisturbed, rows, Latest
<1>4. CASE Evict
  <2>1. faults' # 0
    BY <1>4, FaultType DEF Evict
  <2> QED  BY <1>4, <2>1 DEF Evict, Recent, Undisturbed, rows, Latest
<1>5. CASE Expire
  <2>1. UNCHANGED <<conv, msgs, cleaning, faults>> /\ Latest' = Latest /\ cache' = <<>>
    BY <1>5 DEF Expire, rows, bounds, Latest
  <2>2. \A s \in Slot : pc'[s] = "idle"
    BY <1>1, <1>5 DEF Expire
  <2>3. CacheFollows' /\ WindowFollows' /\ FewLeft'
    BY <2>1, <2>2 DEF CacheFollows, WindowFollows, FewLeft, Behind, Filled
  <2> QED  BY <2>1, <2>3 DEF Recent
<1>6. CASE ClearMemories \/ UNCHANGED vars
  <2>1. UNCHANGED <<conv, msgs, cleaning, cache, faults>> /\ Latest' = Latest
    BY <1>6 DEF ClearMemories, vars, rows, bounds, Latest
  <2>2. \A n : Full(n)' <=> Full(n)
    BY <2>1 DEF Full, IsTail
  <2>3. \A k : Newest(k)' = Newest(k)
    BY <2>1 DEF Newest
  <2>4. \A s : Limit(s)' = Limit(s)
    BY <1>1 DEF Limit
  <2>5. Undisturbed' <=> Undisturbed
    BY <1>1, <2>1 DEF Undisturbed
  <2>6. CacheFollows => CacheFollows'
    BY <1>1, <2>1, <2>2 DEF CacheFollows
  <2>7. WindowFollows => WindowFollows'
    BY <1>1, <2>1, <2>3, <2>4 DEF WindowFollows
  <2>8. FewLeft => FewLeft'
    BY <1>1, <2>1 DEF FewLeft
  <2> QED  BY <2>1, <2>5, <2>6, <2>7, <2>8 DEF Recent
<1> QED  BY <1>2, <1>3, <1>4, <1>5, <1>6 DEF Environment

LEMMA RecentStep == ConversationTypeOK /\ Serial /\ Recent /\ [Next]_vars => Recent'
<1> SUFFICES ASSUME ConversationTypeOK, Serial, Recent, [Next]_vars PROVE Recent'
  OBVIOUS
<1>1. ASSUME NEW s \in Slot, Begin(s) \/ Work(s) PROVE Recent'
  BY <1>1, BeginFollows, ContextFollows, LrangeFollows, HitFollows, LoadFollows, ReplaceFollows,
     CommitFollows, AppendFollows, ExtractionFollows DEF Work
<1> QED  BY <1>1, EnvironmentFollows, NextCases

-----------------------------------------------------------------------------
LEMMA WindowInit == Init => WindowInv
<1> SUFFICES ASSUME Init PROVE WindowInv
  OBVIOUS
<1>1. ConversationTypeOK
  BY TypeInit
<1>2. Latest = 0 /\ cache = <<>> /\ \A s \in Slot : pc[s] = "idle"
  BY DEF Init, Latest
<1>3. Serial /\ Counted
  BY <1>2 DEF Serial, Counted, CountedOnce
<1>4. CacheFollows /\ WindowFollows /\ FewLeft
  BY <1>2 DEF CacheFollows, WindowFollows, FewLeft, Behind, Filled
<1>5. Recent
  BY <1>2, <1>4 DEF Init, Recent
<1> QED  BY <1>1, <1>3, <1>5 DEF WindowInv

LEMMA WindowStep == SummaryInv /\ WindowInv /\ [Next]_vars => SummaryInv' /\ WindowInv'
BY SummaryInvStep, TypeStep, SerialStep, CountedStep, RecentStep DEF SummaryInv, WindowInv

LEMMA WindowIsInvariant == Spec => []WindowInv
<1>1. Init => SummaryInv /\ WindowInv
  BY SummaryInit, WindowInit
<1> QED  BY <1>1, WindowStep, PTL DEF Spec

(* Only an extraction that has marked a question has counted it, and while
   requests follow one another it has done so once at most
   (memory_service.py, 127-169).                                           *)
THEOREM NothingCountedTwice == Spec => []CountedOnce
<1>1. WindowInv => CountedOnce
  BY DEF WindowInv, Counted
<1> QED  BY <1>1, WindowIsInvariant, PTL

(* The history of a question and what lies between it and the summary. *)
LEMMA FewBetween ==
    ASSUME ConversationTypeOK, NEW u \in Nat, Latest - u <= Threshold - 1
    PROVE  Cardinality((u + 1 .. Latest) \ ToSet(Newest(History))) <= Threshold - 1 - History
<1>1. Latest \in Nat /\ Shape
  BY LatestIsNat DEF ConversationTypeOK
<1> DEFINE w == Newest(History)
           k == IF Latest <= History THEN Latest ELSE History
<1>2. w \in Seq(Nat) /\ Len(w) = k /\ \A i \in 1 .. k : w[i] = Latest - k + i
  BY <1>1, Bounds, NewestIsTail DEF IsTail
<1>3. k \in Nat /\ k <= History /\ (k = History \/ k = Latest)
  BY <1>1, Bounds
<1> HIDE DEF w, k
<1>4. ASSUME NEW m \in Latest - k + 1 .. Latest PROVE m \in ToSet(w)
  <2>1. m - (Latest - k) \in 1 .. k /\ m = Latest - k + (m - (Latest - k))
    BY <1>1, <1>3
  <2>2. m - (Latest - k) \in DOMAIN w
    BY <1>2, <2>1
  <2>3. w[m - (Latest - k)] = m
    BY <1>1, <1>2, <1>3, <2>1
  <2> QED  BY <2>2, <2>3 DEF ToSet
<1>5. (u + 1 .. Latest) \ ToSet(w) \subseteq u + 1 .. Latest - k
  <2> SUFFICES ASSUME NEW m \in u + 1 .. Latest, m \notin ToSet(w) PROVE m \in u + 1 .. Latest - k
    OBVIOUS
  <2>1. m \notin Latest - k + 1 .. Latest
    BY <1>4
  <2> QED  BY <1>1, <1>3, <2>1
<1>6. /\ IsFiniteSet(u + 1 .. Latest - k)
      /\ Cardinality(u + 1 .. Latest - k) = IF u + 1 > Latest - k THEN 0 ELSE Latest - k - (u + 1) + 1
  <2>1. u + 1 \in Int /\ Latest - k \in Int
    BY <1>1, <1>3
  <2> QED  BY <2>1, FS_Interval
<1>7. Cardinality((u + 1 .. Latest) \ ToSet(w)) <= Cardinality(u + 1 .. Latest - k)
  BY <1>5, <1>6, FS_Subset
<1>8. Cardinality(u + 1 .. Latest - k) \in Nat /\ Cardinality(u + 1 .. Latest - k) <= Threshold - 1 - History
  BY <1>1, <1>3, <1>6, Bounds
<1>9. Cardinality((u + 1 .. Latest) \ ToSet(w)) \in Nat
  BY <1>5, <1>6, FS_Subset, FS_CardinalityType
<1>10. Cardinality((u + 1 .. Latest) \ ToSet(w)) <= Threshold - 1 - History
  BY <1>7, <1>8, <1>9, Bounds
<1> QED  BY <1>10 DEF w

(* While Redis works and requests follow one another, a question is put to
   the newest messages of the table, and few of the older ones are missing
   in the summary (short_term_memory.py, conversation_context.py).         *)
THEOREM RecentMessagesSeen == Spec => []RecentIsSeen
<1>1. ASSUME WindowInv PROVE RecentIsSeen
  <2> SUFFICES ASSUME NEW s \in Slot, pc[s] = "commit", conv = "live", ~overlapped, faults = 0
               PROVE  /\ loc[s].window = Newest(History)
                      /\ Cardinality((draft[s].until + 1 .. Latest) \ ToSet(loc[s].window))
                            <= Threshold - 1 - History
    BY DEF RecentIsSeen
  <2>1. loc[s].window = Newest(History) /\ Latest - draft[s].until <= Threshold - 1
    BY <1>1 DEF WindowInv, Recent, Undisturbed, WindowFollows, FewLeft
  <2>2. draft[s].until \in Nat /\ ConversationTypeOK
    BY <1>1 DEF WindowInv, ConversationTypeOK, Shape
  <2> QED  BY <2>1, <2>2, FewBetween
<1> QED  BY <1>1, WindowIsInvariant, PTL
=============================================================================
