---------------------------- MODULE KnowledgeBase ----------------------------
(***************************************************************************)
(* Knowledge bases, their members and documents, and the keyword index     *)
(* that a question is searched in: app/api/knowledge_base.py and deps.py,  *)
(* the access checks of app/services/rag_service.py and the BM25 cache of  *)
(* app/rag/embeddings.py.                                                  *)
(*                                                                         *)
(* A handler checks the role of its caller first and acts later, in other  *)
(* statements; in between other requests commit.  Names, descriptions and  *)
(* the chunk configuration of a knowledge base are left out.               *)
(***************************************************************************)
EXTENDS Integers, FiniteSets, FiniteSetsExt

CONSTANTS
    User, NoUser,
    Kb, NoKb,
    Doc,
    Call,         \* the requests that check a role first
    Grantable,    \* the roles an admin can give: viewer, editor, admin
    MaxIds,       \* bound on documents_chunks.id
    MaxChunks     \* bound on the chunks of an attempt

ASSUME KnowledgeBaseAssumption ==
    /\ NoUser \notin User /\ NoKb \notin Kb
    /\ Grantable \subseteq {"viewer", "editor", "admin"}
    /\ MaxIds \in Nat /\ MaxChunks \in Nat

VARIABLES
    kbs,      \* knowledge_bases
    creator,  \* created_by, also of those deleted since
    members,  \* knowledge_base_members
    doc,      \* documents: kb_id and committed chunks
    uploader, \* documents.user_id, also of those deleted since
    pending,  \* the chunk rows an uncommitted attempt has inserted
    nextId,   \* the sequence behind documents_chunks.id
    index,    \* _bm25_indexes, by scope
    call,     \* the requests under way
    into,     \* the kb_id each document was uploaded with (history)
    late      \* scopes some chunk has entered below the newest one (history)

rows == <<kbs, creator, members>>
docs == <<doc, uploader, into>>
vars == <<rows, docs, pending, nextId, index, call, late>>

-----------------------------------------------------------------------------
Level == [viewer |-> 1, editor |-> 2, admin |-> 3, owner |-> 4]

(* The least role each operation asks for. *)
Need == [add |-> "admin", update |-> "admin", remove |-> "admin",
         delete |-> "owner", upload |-> "editor", ask |-> "viewer"]

Row == [kb : Kb, user : User, role : DOMAIN Level]
RowsOf(k, u) == {r \in members : r.kb = k /\ r.user = u}

(* check_kb_role, and _ensure_kb_viewer for "viewer". *)
HasRole(u, k, least) == \E r \in RowsOf(k, u) : Level[r.role] >= Level[least]

(* What a question may be asked of: a knowledge base or one's own documents. *)
Personal(u) == [kb |-> NoKb, user |-> u]
Shared(k)   == [kb |-> k, user |-> NoUser]
Scope == {Personal(u) : u \in User} \cup {Shared(k) : k \in Kb}

Absent == [here |-> FALSE, kb |-> NoKb, chunks |-> {}]
Present(d) == doc[d].here

(* _chunk_query: a chunk is its document and its id. *)
InScope(d, s) == Present(d) /\ doc[d].kb = s.kb /\ (s.kb = NoKb => uploader[d] = s.user)
ChunksIn(s) == UNION {{[doc |-> d, id |-> i] : i \in doc[d].chunks} : d \in {e \in Doc : InScope(e, s)}}

Newest(cs) == IF cs = {} THEN 0 ELSE Max({c.id : c \in cs})

\* Mutant: only the number of chunks is compared.
FingerprintCount(cs) == <<Cardinality(cs), 0>>

Fingerprint(cs) == <<Cardinality(cs), Newest(cs)>>

\* Mutant: the key of a personal index leaves the user out.
KeyWithoutUser(s) == IF s.kb = NoKb THEN Personal(CHOOSE u \in User : TRUE) ELSE s

(* _bm25_key *)
Key(s) == s

NoIndex == [built |-> FALSE, chunks |-> {}]
Free == [at |-> "free", op |-> "ask", user |-> NoUser, kb |-> NoKb, target |-> NoUser, role |-> "viewer"]
Over == [Free EXCEPT !.at = "over"]

Init ==
    /\ kbs = {} /\ creator = [k \in Kb |-> NoUser] /\ members = {}
    /\ doc = [d \in Doc |-> Absent] /\ uploader = [d \in Doc |-> NoUser]
    /\ pending = [d \in Doc |-> {}] /\ nextId = 1
    /\ index = [s \in Scope |-> NoIndex]
    /\ call = [c \in Call |-> Free]
    /\ into = [d \in Doc |-> NoKb] /\ late = {}

(* The documents change; chunks that enter a scope below its newest are noted. *)
ChangeDocs(new) ==
    /\ doc' = new /\ UNCHANGED <<uploader, into>>
    /\ late' = late \cup {s \in Scope : \E c \in ChunksIn(s)' \ ChunksIn(s) : c.id < Newest(ChunksIn(s))}

-----------------------------------------------------------------------------
(* create_kb: the row and the owner's membership are one transaction. *)
CreateKb(u, k) ==
    /\ creator[k] = NoUser
    /\ creator' = [creator EXCEPT ![k] = u] /\ kbs' = kbs \cup {k}
    /\ members' = members \cup {[kb |-> k, user |-> u, role |-> "owner"]}
    /\ UNCHANGED <<docs, pending, nextId, index, call, late>>

(* A request passes the check of its role; one that does not changes nothing. *)
Begin(c, op, u, k, target, role) ==
    /\ call[c] = Free
    /\ k # NoKb => HasRole(u, k, Need[op])
    /\ call' = [call EXCEPT ![c] = [at |-> "checked", op |-> op, user |-> u, kb |-> k,
                                    target |-> target, role |-> role]]
    /\ UNCHANGED <<rows, docs, pending, nextId, index, late>>

BeginAny(c) ==
    \E u \in User, k \in Kb :
        \/ \E op \in {"add", "update"}, t \in User, r \in Grantable : Begin(c, op, u, k, t, r)
        \/ \E t \in User : Begin(c, "remove", u, k, t, "viewer")
        \/ \E op \in {"delete", "upload"} : Begin(c, op, u, k, NoUser, "viewer")

(* A question about a knowledge base or about one's own documents. *)
BeginAsk(c) == \E u \in User, k \in Kb \cup {NoKb} : Begin(c, "ask", u, k, NoUser, "viewer")

Checked(c, op) == call[c].at = "checked" /\ call[c].op = op
End(c) == call' = [call EXCEPT ![c] = Over]

-----------------------------------------------------------------------------
(* add_member looks for the row and inserts it; uq_kb_member and the foreign
   key refuse a second row and one of a deleted knowledge base.            *)
Lookup(c) ==
    /\ Checked(c, "add")
    /\ IF RowsOf(call[c].kb, call[c].target) = {}
       THEN call' = [call EXCEPT ![c].at = "insert"]
       ELSE End(c)
    /\ UNCHANGED <<rows, docs, pending, nextId, index, late>>

Accepts(k, u) == k \in kbs /\ RowsOf(k, u) = {}

Insert(c) ==
    LET k == call[c].kb  u == call[c].target IN
    /\ call[c].at = "insert"
    /\ members' = IF Accepts(k, u)
                  THEN members \cup {[kb |-> k, user |-> u, role |-> call[c].role]}
                  ELSE members
    /\ End(c)
    /\ UNCHANGED <<kbs, creator, docs, pending, nextId, index, late>>

(* update_member_role and remove_member do not touch the owner's row. *)
\* Mutant: whoever is not the caller himself can be changed.
TargetOther(c) == {r \in RowsOf(call[c].kb, call[c].target) : r.user # call[c].user}

Target(c) == {r \in RowsOf(call[c].kb, call[c].target) : r.role # "owner"}

UpdateMemberRole(c) ==
    /\ Checked(c, "update")
    /\ members' = (members \ Target(c)) \cup {[r EXCEPT !.role = call[c].role] : r \in Target(c)}
    /\ End(c)
    /\ UNCHANGED <<kbs, creator, docs, pending, nextId, index, late>>

RemoveMember(c) ==
    /\ Checked(c, "remove")
    /\ members' = members \ Target(c)
    /\ End(c)
    /\ UNCHANGED <<kbs, creator, docs, pending, nextId, index, late>>

(* delete_kb: the documents become personal, the memberships go with it. *)
\* Mutant: the documents keep the kb_id.
ReleasedKeeps(k) == doc

Released(k) == [d \in Doc |-> IF doc[d].kb = k THEN [doc[d] EXCEPT !.kb = NoKb] ELSE doc[d]]

DeleteKb(c) ==
    LET k == call[c].kb IN
    /\ Checked(c, "delete")
    /\ IF k \in kbs
       THEN /\ kbs' = kbs \ {k}
            /\ members' = {r \in members : r.kb # k}
            /\ ChangeDocs(Released(k))
       ELSE UNCHANGED <<kbs, members, docs, late>>
    /\ End(c)
    /\ UNCHANGED <<creator, pending, nextId, index>>

-----------------------------------------------------------------------------
(* upload_document, after the check: documents.kb_id has no foreign key. *)
Store(d, u, k) ==
    /\ uploader[d] = NoUser
    /\ doc' = [doc EXCEPT ![d] = [here |-> TRUE, kb |-> k, chunks |-> {}]]
    /\ uploader' = [uploader EXCEPT ![d] = u]
    /\ into' = [into EXCEPT ![d] = k]
    /\ UNCHANGED <<rows, pending, nextId, index, late>>

Upload(c) ==
    /\ Checked(c, "upload") /\ \E d \in Doc : Store(d, call[c].user, call[c].kb)
    /\ End(c)

UploadPersonal(d, u) == Store(d, u, NoKb) /\ UNCHANGED call

(* An attempt of the indexing task takes ids for its chunk rows and commits
   them in place of the old ones, unless the document has gone.            *)
Allot(d, n) ==
    /\ Present(d) /\ pending[d] = {} /\ nextId + n <= MaxIds + 1
    /\ pending' = [pending EXCEPT ![d] = nextId .. nextId + n - 1]
    /\ nextId' = nextId + n
    /\ UNCHANGED <<rows, docs, index, call, late>>

Commit(d) ==
    /\ pending[d] # {}
    /\ pending' = [pending EXCEPT ![d] = {}]
    /\ IF Present(d) THEN ChangeDocs([doc EXCEPT ![d].chunks = pending[d]])
       ELSE UNCHANGED <<docs, late>>
    /\ UNCHANGED <<rows, nextId, index, call>>

(* delete_document: by the uploader or an admin of its knowledge base. *)
DeleteDocument(d, u) ==
    /\ Present(d)
    /\ u = uploader[d] \/ HasRole(u, doc[d].kb, "admin")
    /\ ChangeDocs([doc EXCEPT ![d] = Absent])
    /\ UNCHANGED <<rows, pending, nextId, index, call>>

-----------------------------------------------------------------------------
ScopeOf(c) == IF call[c].kb = NoKb THEN Personal(call[c].user) ELSE Shared(call[c].kb)

(* ensure_bm25: the cached index is kept while its fingerprint is that of the
   table, and built anew otherwise.                                        *)
EnsureBm25(c) ==
    LET key == Key(ScopeOf(c))  now == ChunksIn(ScopeOf(c)) IN
    /\ Checked(c, "ask")
    /\ index' = IF index[key].built /\ Fingerprint(index[key].chunks) = Fingerprint(now)
                THEN index
                ELSE [index EXCEPT ![key] = [built |-> TRUE, chunks |-> now]]
    /\ call' = [call EXCEPT ![c].at = "search"]
    /\ UNCHANGED <<rows, docs, pending, nextId, late>>

(* The search reads the cached chunks, whatever has happened since. *)
Search(c) ==
    /\ call[c].at = "search" /\ End(c)
    /\ UNCHANGED <<rows, docs, pending, nextId, index, late>>

Next ==
    \/ \E u \in User, k \in Kb : CreateKb(u, k)
    \/ \E c \in Call :
         \/ BeginAny(c) \/ BeginAsk(c)
         \/ Lookup(c) \/ Insert(c) \/ UpdateMemberRole(c) \/ RemoveMember(c) \/ DeleteKb(c)
         \/ Upload(c) \/ EnsureBm25(c) \/ Search(c)
    \/ \E d \in Doc :
         \/ \E u \in User : UploadPersonal(d, u) \/ DeleteDocument(d, u)
         \/ \E n \in 1 .. MaxChunks : Allot(d, n)
         \/ Commit(d)

Spec == Init /\ [][Next]_vars

-----------------------------------------------------------------------------
Request == [at : {"free", "checked", "insert", "search", "over"}, op : DOMAIN Need,
            user : User \cup {NoUser}, kb : Kb \cup {NoKb},
            target : User \cup {NoUser}, role : Grantable \cup {"viewer"}]

KbTypeOK ==
    /\ kbs \subseteq Kb /\ creator \in [Kb -> User \cup {NoUser}] /\ members \subseteq Row
    /\ doc \in [Doc -> [here : BOOLEAN, kb : Kb \cup {NoKb}, chunks : SUBSET (1 .. MaxIds)]]
    /\ uploader \in [Doc -> User \cup {NoUser}] /\ into \in [Doc -> Kb \cup {NoKb}]
    /\ pending \in [Doc -> SUBSET (1 .. MaxIds)] /\ nextId \in 1 .. MaxIds + 1
    /\ index \in [Scope -> [built : BOOLEAN, chunks : SUBSET [doc : Doc, id : 1 .. MaxIds]]]
    /\ late \subseteq Scope
    /\ call \in [Call -> Request]

(* A knowledge base has one owner, its creator, whatever its admins do to
   their memberships at the same time, and no member outlives it
   (knowledge_base.py, 310 and 347).                                       *)
OneOwner ==
    /\ \A k \in kbs : {r.user : r \in {m \in members : m.kb = k /\ m.role = "owner"}} = {creator[k]}
    /\ \A r \in members : r.kb \in kbs

(* Two admins who add the same user at the same time leave one membership
   (knowledge_base.py, 264).                                               *)
OneRow == \A k \in Kb, u \in User : Cardinality(RowsOf(k, u)) <= 1

(* Memberships survive whatever requests do after a check of a role that
   does not hold any more.                                                 *)
MembershipsSound == OneOwner /\ OneRow

(* What a question is searched in was uploaded to the knowledge base it is
   about, or by the user who asks (embeddings.py, 80; rag_service.py, 208). *)
SearchesAllowed ==
    \A c \in Call : call[c].at = "search" =>
        \A x \in index[Key(ScopeOf(c))].chunks :
            IF call[c].kb = NoKb THEN uploader[x.doc] = call[c].user ELSE into[x.doc] = call[c].kb

(* "count/max(id)" (embeddings.py, 119): the index that a question finds is
   that of the table, unless chunks have come in below the newest one: with a
   commit that another has overtaken or the documents of a deleted knowledge
   base.                                                                   *)
FreshUnlessLate ==
    [][\A c \in Call :
         call[c].at = "checked" /\ call'[c].at = "search" /\ ScopeOf(c) \notin late =>
             index'[Key(ScopeOf(c))].chunks = ChunksIn(ScopeOf(c))]_vars

(* "文档保留" (knowledge_base.py, 203): a document goes from its uploader's list
   when he is removed from its knowledge base, never with the knowledge base. *)
Listed(d) == Present(d) /\ (doc[d].kb = NoKb \/ RowsOf(doc[d].kb, uploader[d]) # {})

DeletionKeepsDocuments ==
    [][\A d \in Doc : Listed(d) /\ Present(d)' => Listed(d)' \/ doc'[d].kb \in kbs']_vars
=============================================================================
