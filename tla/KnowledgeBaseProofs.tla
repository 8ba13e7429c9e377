------------------------ MODULE KnowledgeBaseProofs ------------------------
(***************************************************************************)
(* What holds of memberships and searches for any number of users,         *)
(* knowledge bases, documents and requests.  The roles a request was       *)
(* granted by need not hold any more when it acts: the argument uses only  *)
(* what the acting statements themselves look at.                          *)
(***************************************************************************)
EXTENDS KnowledgeBase, FiniteSetTheorems, WellFoundedInduction, TLAPS

-----------------------------------------------------------------------------
(* The inductive invariant. *)

(* What a request is about never includes the role of an owner. *)
Sound(x) ==
    /\ x.at \in {"checked", "insert", "search"} => x.user \in User
    /\ x.op # "ask" => x.kb \in Kb
    /\ x.op = "add" => x.target \in User
    /\ x.at = "insert" => x.op = "add"

Calls == call \in [Call -> {x \in Request : Sound(x)}]

OwnerRow(k) == [kb |-> k, user |-> creator[k], role |-> "owner"]

Memberships ==
    /\ kbs \subseteq Kb /\ creator \in [Kb -> User \cup {NoUser}] /\ members \subseteq Row
    /\ \A r \in members : r.kb \in kbs
    /\ \A k \in kbs : creator[k] \in User /\ OwnerRow(k) \in members
    /\ \A r \in members : r.role = "owner" => r.user = creator[r.kb]
    /\ \A r, q \in members : r.kb = q.kb /\ r.user = q.user => r = q

DocRow == [here : BOOLEAN, kb : Kb \cup {NoKb}, chunks : SUBSET (1 .. MaxIds)]

Attempts == pending \in [Doc -> SUBSET (1 .. MaxIds)] /\ nextId \in 1 .. MaxIds + 1

Documents ==
    /\ doc \in [Doc -> DocRow]
    /\ uploader \in [Doc -> User \cup {NoUser}] /\ into \in [Doc -> Kb \cup {NoKb}]
    /\ late \subseteq Scope
    /\ \A d \in Doc : doc[d].kb \in {NoKb, into[d]}
    /\ \A d \in Doc : Present(d) => uploader[d] \in User

(* A document may be found in a scope, now or by an index of earlier. *)
Allowed(s, d) == uploader[d] \in User /\ IF s.kb = NoKb THEN uploader[d] = s.user ELSE into[d] = s.kb

Indexes ==
    /\ index \in [Scope -> [built : BOOLEAN, chunks : SUBSET [doc : Doc, id : 1 .. MaxIds]]]
    /\ \A s \in Scope : \A x \in index[s].chunks : Allowed(s, x.doc)

IInv == Memberships /\ Calls /\ Documents /\ Attempts /\ Indexes

-----------------------------------------------------------------------------
(* Lemmas about the requests. *)

LEMMA Names ==
    /\ DOMAIN Level = {"viewer", "editor", "admin", "owner"}
    /\ DOMAIN Need = {"add", "update", "remove", "delete", "upload", "ask"}
BY DEF Level, Need

(* A request that is over is sound. *)
LEMMA OverIsSound == Over \in {x \in Request : Sound(x)}
BY Names, KnowledgeBaseAssumption DEF Over, Free, Request, Sound

(* So is one that has gone a step further. *)
LEMMA StepIsSound ==
    ASSUME NEW x \in {y \in Request : Sound(y)}, NEW a \in {"insert", "search"},
           x.at = "checked", a = "insert" => x.op = "add"
    PROVE  [x EXCEPT !.at = a] \in {y \in Request : Sound(y)}
BY DEF Request, Sound

(* A request whose check has passed is sound. *)
LEMMA BegunIsSound ==
    ASSUME NEW op \in DOMAIN Need, NEW u \in User, NEW k \in Kb \cup {NoKb},
           NEW t \in User \cup {NoUser}, NEW r \in Grantable \cup {"viewer"},
           op # "ask" => k \in Kb, op = "add" => t \in User
    PROVE  [at |-> "checked", op |-> op, user |-> u, kb |-> k, target |-> t, role |-> r]
               \in {y \in Request : Sound(y)}
BY DEF Request, Sound

LEMMA CallsChange ==
    ASSUME Calls, NEW c \in Call, NEW x \in {y \in Request : Sound(y)},
           call' = [call EXCEPT ![c] = x]
    PROVE  Calls'
BY DEF Calls, Request, Sound

LEMMA Ended ==
    ASSUME Calls, NEW c \in Call, End(c)
    PROVE  Calls'
BY OverIsSound, CallsChange DEF End

(* Begin is the only step that gives a request its parameters. *)
LEMMA Begun ==
    ASSUME Calls, NEW c \in Call, BeginAny(c) \/ BeginAsk(c)
    PROVE  Calls'
<1>1. ASSUME NEW op \in DOMAIN Need, NEW u \in User, NEW k \in Kb \cup {NoKb},
             NEW t \in User \cup {NoUser}, NEW r \in Grantable \cup {"viewer"},
             op # "ask" => k \in Kb, op = "add" => t \in User, Begin(c, op, u, k, t, r)
      PROVE  Calls'
  BY <1>1, BegunIsSound, CallsChange DEF Begin
<1>2. CASE \E u \in User, k \in Kb : \E op \in {"add", "update"}, t \in User, r \in Grantable :
               Begin(c, op, u, k, t, r)
  BY <1>1, <1>2, Names
<1>3. CASE \E u \in User, k \in Kb : \E t \in User : Begin(c, "remove", u, k, t, "viewer")
  BY <1>1, <1>3, Names
<1>4. CASE \E u \in User, k \in Kb : \E op \in {"delete", "upload"} :
               Begin(c, op, u, k, NoUser, "viewer")
  BY <1>1, <1>4, Names
<1>5. CASE \E u \in User, k \in Kb \cup {NoKb} : Begin(c, "ask", u, k, NoUser, "viewer")
  BY <1>1, <1>5, Names
<1> QED  BY <1>2, <1>3, <1>4, <1>5 DEF BeginAny, BeginAsk

(* Every step of a request leaves the requests sound. *)
LEMMA CallsNext ==
    ASSUME Calls, Next
    PROVE  Calls'
<1>1. ASSUME NEW c \in Call, Lookup(c)
      PROVE  Calls'
  <2>1. call[c] \in {x \in Request : Sound(x)} /\ call[c].op = "add" /\ call[c].at = "checked"
    BY <1>1 DEF Lookup, Checked, Calls
  <2>2. [call[c] EXCEPT !.at = "insert"] \in {x \in Request : Sound(x)}
    BY <2>1, StepIsSound
  <2>3. CASE call' = [call EXCEPT ![c].at = "insert"]
    BY <2>2, <2>3, CallsChange
  <2>4. CASE End(c)
    BY <2>4, Ended
  <2> QED  BY <1>1, <2>3, <2>4 DEF Lookup
<1>2. ASSUME NEW c \in Call, EnsureBm25(c)
      PROVE  Calls'
  <2>1. call[c] \in {x \in Request : Sound(x)} /\ call[c].at = "checked"
    BY <1>2 DEF EnsureBm25, Checked, Calls
  <2>2. [call[c] EXCEPT !.at = "search"] \in {x \in Request : Sound(x)}
    BY <2>1, StepIsSound
  <2>3. call' = [call EXCEPT ![c] = [call[c] EXCEPT !.at = "search"]]
    BY <1>2 DEF EnsureBm25
  <2> QED  BY <2>2, <2>3, CallsChange
<1>3. ASSUME NEW c \in Call, \/ Insert(c) \/ UpdateMemberRole(c) \/ RemoveMember(c) \/ DeleteKb(c)
                             \/ Upload(c) \/ Search(c)
      PROVE  Calls'
  BY <1>3, Ended DEF Insert, UpdateMemberRole, RemoveMember, DeleteKb, Upload, Search
<1>4. CASE \E u \in User, k \in Kb : CreateKb(u, k)
  BY <1>4 DEF CreateKb, Calls
<1>5. ASSUME NEW d \in Doc
      PROVE  /\ \A u \in User : UploadPersonal(d, u) => UNCHANGED call
             /\ \A u \in User : DeleteDocument(d, u) => UNCHANGED call
             /\ \A n \in 1 .. MaxChunks : Allot(d, n) => UNCHANGED call
             /\ Commit(d) => UNCHANGED call
  BY DEF UploadPersonal, DeleteDocument, Allot, Commit
<1>6. UNCHANGED call => Calls'
  BY DEF Calls
<1>7. CASE \E d \in Doc : (\E u \in User : UploadPersonal(d, u) \/ DeleteDocument(d, u))
                          \/ (\E n \in 1 .. MaxChunks : Allot(d, n)) \/ Commit(d)
  BY <1>5, <1>6, <1>7
<1>8. CASE \E c \in Call : BeginAny(c) \/ BeginAsk(c) \/ Lookup(c) \/ Insert(c) \/ UpdateMemberRole(c)
                            \/ RemoveMember(c) \/ DeleteKb(c) \/ Upload(c) \/ EnsureBm25(c) \/ Search(c)
  BY <1>1, <1>2, <1>3, <1>8, Begun
<1> QED  BY <1>4, <1>7, <1>8 DEF Next

-----------------------------------------------------------------------------
(* Memberships. *)

LEMMA CreateKbKeeps ==
    ASSUME Memberships, NEW u \in User, NEW k \in Kb, CreateKb(u, k)
    PROVE  Memberships'
<1> DEFINE own == [kb |-> k, user |-> u, role |-> "owner"]
<1>1. own \in Row /\ own.kb = k /\ own.user = u
  BY Names DEF Row
<1>2. k \notin kbs /\ \A r \in members : r.kb # k
  BY KnowledgeBaseAssumption DEF Memberships, CreateKb
<1>3. /\ creator' = [creator EXCEPT ![k] = u] /\ kbs' = kbs \cup {k}
      /\ members' = members \cup {own}
  BY DEF CreateKb
<1> HIDE DEF own
<1>4. kbs' \subseteq Kb /\ creator' \in [Kb -> User \cup {NoUser}] /\ members' \subseteq Row
  BY <1>1, <1>3 DEF Memberships
<1>5. \A r \in members' : r.kb \in kbs'
  BY <1>1, <1>3 DEF Memberships
<1>6. \A j \in kbs' : creator'[j] \in User /\ OwnerRow(j)' \in members'
  <2>1. OwnerRow(k)' = own
    BY <1>3 DEF own, OwnerRow, Memberships
  <2>2. ASSUME NEW j \in kbs
        PROVE  OwnerRow(j)' = OwnerRow(j) /\ creator'[j] = creator[j]
    BY <1>2, <1>3 DEF OwnerRow, Memberships
  <2> QED  BY <1>3, <2>1, <2>2 DEF Memberships
<1>7. \A r \in members' : r.role = "owner" => r.user = creator'[r.kb]
  BY <1>1, <1>2, <1>3 DEF Memberships
<1>8. \A r, q \in members' : r.kb = q.kb /\ r.user = q.user => r = q
  BY <1>1, <1>2, <1>3 DEF Memberships
<1> QED  BY <1>4, <1>5, <1>6, <1>7, <1>8 DEF Memberships

(* A row that is inserted is nobody's second one and not an owner's. *)
LEMMA InsertKeeps ==
    ASSUME Memberships, Calls, NEW c \in Call, Insert(c)
    PROVE  Memberships'
<1> DEFINE k == call[c].kb  u == call[c].target
           new == [kb |-> k, user |-> u, role |-> call[c].role]
<1>1. call[c].op = "add" /\ k \in Kb /\ u \in User /\ call[c].role \in {"viewer", "editor", "admin"}
  BY KnowledgeBaseAssumption DEF Insert, Calls, Sound, Request
<1>2. new \in Row /\ new.role # "owner" /\ new.kb = k /\ new.user = u
  BY <1>1, Names DEF Row
<1>3. \/ UNCHANGED members
      \/ k \in kbs /\ RowsOf(k, u) = {} /\ members' = members \cup {new}
  BY DEF Insert, Accepts
<1>4. UNCHANGED <<kbs, creator>>
  BY DEF Insert
<1> HIDE DEF new, k, u
<1>5. CASE UNCHANGED members
  BY <1>4, <1>5 DEF Memberships, OwnerRow
<1>6. CASE k \in kbs /\ RowsOf(k, u) = {} /\ members' = members \cup {new}
  <2>1. \A r \in members : ~(r.kb = k /\ r.user = u)
    BY <1>6 DEF RowsOf
  <2> QED  BY <1>2, <1>4, <1>6, <2>1 DEF Memberships, OwnerRow
<1> QED  BY <1>3, <1>5, <1>6

(* A change of role leaves kb and user of the row and every owner's row. *)
LEMMA UpdateKeeps ==
    ASSUME Memberships, Calls, NEW c \in Call, UpdateMemberRole(c)
    PROVE  Memberships'
<1> DEFINE Changed(r) == [r EXCEPT !.role = call[c].role]
<1>1. call[c].role \in {"viewer", "editor", "admin"}
  BY KnowledgeBaseAssumption DEF UpdateMemberRole, Checked, Calls, Request
<1>2. ASSUME NEW r \in members
      PROVE  /\ Changed(r) \in Row /\ Changed(r).kb = r.kb /\ Changed(r).user = r.user
             /\ Changed(r).role # "owner"
  BY <1>1, Names DEF Row, Memberships
<1>3. Target(c) \subseteq members /\ \A r \in Target(c) : r.role # "owner"
  BY DEF Target, RowsOf
<1>4. /\ members' = (members \ Target(c)) \cup {Changed(r) : r \in Target(c)}
      /\ UNCHANGED <<kbs, creator>>
  BY DEF UpdateMemberRole
<1> HIDE DEF Changed
<1>5. \A j : OwnerRow(j)' = OwnerRow(j) /\ OwnerRow(j).role = "owner"
  BY <1>4 DEF OwnerRow
<1>6. \A r \in members' : \E q \in members :
          /\ r.kb = q.kb /\ r.user = q.user /\ r \in Row
          /\ (r = q /\ q \notin Target(c)) \/ (r = Changed(q) /\ q \in Target(c) /\ r.role # "owner")
  BY <1>2, <1>3, <1>4 DEF Memberships
<1>7. \A r, q \in members' : r.kb = q.kb /\ r.user = q.user => r = q
  BY <1>6 DEF Memberships
<1>8. \A k \in kbs' : OwnerRow(k)' \in members'
  BY <1>3, <1>4, <1>5 DEF Memberships
<1> QED  BY <1>4, <1>6, <1>7, <1>8 DEF Memberships

LEMMA RemoveKeeps ==
    ASSUME Memberships, NEW c \in Call, RemoveMember(c)
    PROVE  Memberships'
<1>1. /\ members' = members \ Target(c) /\ UNCHANGED <<kbs, creator>>
      /\ \A r \in Target(c) : r.role # "owner"
  BY DEF RemoveMember, Target
<1>2. \A j : OwnerRow(j)' = OwnerRow(j) /\ OwnerRow(j).role = "owner"
  BY <1>1 DEF OwnerRow
<1> QED  BY <1>1, <1>2 DEF Memberships

LEMMA DeleteKbKeeps ==
    ASSUME Memberships, NEW c \in Call, DeleteKb(c)
    PROVE  Memberships'
<1>1. CASE UNCHANGED <<kbs, members, creator>>
  BY <1>1 DEF Memberships, OwnerRow
<1>2. CASE /\ kbs' = kbs \ {call[c].kb} /\ members' = {r \in members : r.kb # call[c].kb}
           /\ UNCHANGED creator
  <2>1. \A j : OwnerRow(j)' = OwnerRow(j) /\ OwnerRow(j).kb = j
    BY <1>2 DEF OwnerRow
  <2> QED  BY <1>2, <2>1 DEF Memberships
<1> QED  BY <1>1, <1>2 DEF DeleteKb

LEMMA MembershipsNext ==
    ASSUME Memberships, Calls, Next
    PROVE  Memberships'
<1>1. CASE \E u \in User, k \in Kb : CreateKb(u, k)
  BY <1>1, CreateKbKeeps
<1>2. ASSUME NEW c \in Call, Insert(c) \/ UpdateMemberRole(c) \/ RemoveMember(c) \/ DeleteKb(c)
      PROVE  Memberships'
  BY <1>2, InsertKeeps, UpdateKeeps, RemoveKeeps, DeleteKbKeeps
<1>3. UNCHANGED rows => Memberships'
  BY DEF rows, Memberships, OwnerRow
<1>4. ASSUME NEW c \in Call,
             BeginAny(c) \/ BeginAsk(c) \/ Lookup(c) \/ Upload(c) \/ EnsureBm25(c) \/ Search(c)
      PROVE  UNCHANGED rows
  BY <1>4 DEF BeginAny, BeginAsk, Begin, Lookup, Upload, Store, EnsureBm25, Search
<1>5. ASSUME NEW d \in Doc
      PROVE  /\ \A u \in User : UploadPersonal(d, u) => UNCHANGED rows
             /\ \A u \in User : DeleteDocument(d, u) => UNCHANGED rows
             /\ \A n \in 1 .. MaxChunks : Allot(d, n) => UNCHANGED rows
             /\ Commit(d) => UNCHANGED rows
  BY DEF UploadPersonal, Store, DeleteDocument, Allot, Commit
<1>6. CASE \E d \in Doc : (\E u \in User : UploadPersonal(d, u) \/ DeleteDocument(d, u))
                          \/ (\E n \in 1 .. MaxChunks : Allot(d, n)) \/ Commit(d)
  BY <1>3, <1>5, <1>6
<1>7. CASE \E c \in Call : BeginAny(c) \/ BeginAsk(c) \/ Lookup(c) \/ Insert(c) \/ UpdateMemberRole(c)
                            \/ RemoveMember(c) \/ DeleteKb(c) \/ Upload(c) \/ EnsureBm25(c) \/ Search(c)
  BY <1>2, <1>3, <1>4, <1>7
<1> QED  BY <1>1, <1>6, <1>7 DEF Next

-----------------------------------------------------------------------------
(* Documents and the attempts that fill them. *)

(* A change of rows that invents neither a document nor a knowledge base. *)
LEMMA ChangeKeeps ==
    ASSUME Documents, NEW new \in [Doc -> DocRow], ChangeDocs(new),
           \A d \in Doc : new[d].kb \in {NoKb, into[d]},
           \A d \in Doc : new[d].here => Present(d)
    PROVE  Documents' /\ UNCHANGED <<uploader, into>>
<1>1. doc' = new /\ UNCHANGED <<uploader, into>>
  BY DEF ChangeDocs
<1>2. late' \subseteq Scope
  BY DEF ChangeDocs, Documents
<1> QED  BY <1>1, <1>2 DEF Documents, Present

LEMMA StoreKeeps ==
    ASSUME Documents, NEW d \in Doc, NEW u \in User, NEW k \in Kb \cup {NoKb}, Store(d, u, k)
    PROVE  Documents' /\ UNCHANGED pending /\ UNCHANGED nextId
<1>1. [here |-> TRUE, kb |-> k, chunks |-> {}] \in DocRow
  BY DEF DocRow
<1> QED  BY <1>1 DEF Store, Documents, Present

LEMMA DeleteKbChanges ==
    ASSUME Documents, NEW c \in Call, DeleteKb(c)
    PROVE  Documents' /\ UNCHANGED <<uploader, into, pending, nextId, index>>
<1> DEFINE k == call[c].kb
<1>1. UNCHANGED <<pending, nextId, index>>
  BY DEF DeleteKb
<1>2. CASE UNCHANGED <<docs, late>>
  BY <1>1, <1>2 DEF Documents, docs, Present
<1>3. CASE ChangeDocs(Released(k))
  <2>1. ASSUME NEW d \in Doc
        PROVE  /\ [doc[d] EXCEPT !.kb = NoKb] \in DocRow
               /\ [doc[d] EXCEPT !.kb = NoKb].kb = NoKb
               /\ [doc[d] EXCEPT !.kb = NoKb].here = doc[d].here
    BY DEF Documents, DocRow
  <2>2. /\ Released(k) \in [Doc -> DocRow]
        /\ \A d \in Doc : Released(k)[d].kb \in {NoKb, into[d]}
        /\ \A d \in Doc : Released(k)[d].here => Present(d)
    BY <2>1 DEF Released, Documents, Present
  <2> QED  BY <1>1, <1>3, <2>2, ChangeKeeps
<1> QED  BY <1>2, <1>3 DEF DeleteKb

LEMMA CommitChanges ==
    ASSUME Documents, Attempts, NEW d \in Doc, Commit(d)
    PROVE  Documents' /\ Attempts' /\ UNCHANGED <<uploader, into, index>>
<1> DEFINE new == [doc EXCEPT ![d].chunks = pending[d]]
<1>1. Attempts' /\ UNCHANGED index
  BY DEF Commit, Attempts
<1>2. CASE UNCHANGED <<docs, late>>
  BY <1>1, <1>2 DEF Documents, docs, Present
<1>3. CASE ChangeDocs(new)
  <2>1. /\ [doc[d] EXCEPT !.chunks = pending[d]] \in DocRow
        /\ [doc[d] EXCEPT !.chunks = pending[d]].kb = doc[d].kb
        /\ [doc[d] EXCEPT !.chunks = pending[d]].here = doc[d].here
    BY DEF Documents, DocRow, Attempts
  <2>2. new = [doc EXCEPT ![d] = [doc[d] EXCEPT !.chunks = pending[d]]]
    BY DEF Documents
  <2>3. /\ new \in [Doc -> DocRow]
        /\ \A e \in Doc : new[e].kb \in {NoKb, into[e]}
        /\ \A e \in Doc : new[e].here => Present(e)
    BY <2>1, <2>2 DEF Documents, Present
  <2> HIDE DEF new
  <2> QED  BY <1>1, <1>3, <2>3, ChangeKeeps
<1> QED  BY <1>2, <1>3 DEF Commit

LEMMA DeleteDocumentChanges ==
    ASSUME Documents, NEW d \in Doc, NEW u \in User, DeleteDocument(d, u)
    PROVE  Documents' /\ UNCHANGED <<uploader, into, pending, nextId, index>>
<1> DEFINE new == [doc EXCEPT ![d] = Absent]
<1>1. ChangeDocs(new) /\ UNCHANGED <<pending, nextId, index>>
  BY DEF DeleteDocument
<1>2. Absent \in DocRow /\ Absent.kb = NoKb /\ ~Absent.here
  BY DEF Absent, DocRow
<1>3. /\ new \in [Doc -> DocRow]
      /\ \A e \in Doc : new[e].kb \in {NoKb, into[e]}
      /\ \A e \in Doc : new[e].here => Present(e)
  BY <1>2 DEF Documents, Present
<1> HIDE DEF new
<1> QED  BY <1>1, <1>3, ChangeKeeps

LEMMA AllotKeeps ==
    ASSUME Attempts, NEW d \in Doc, NEW n \in 1 .. MaxChunks, Allot(d, n)
    PROVE  Attempts' /\ UNCHANGED <<doc, uploader, into, late, index>>
<1>1. MaxIds \in Nat /\ MaxChunks \in Nat
  BY KnowledgeBaseAssumption
<1> QED  BY <1>1 DEF Allot, Attempts, docs

-----------------------------------------------------------------------------
(* Indexes: what was allowed stays so, because a document keeps its uploader
   and the knowledge base it was uploaded to.                              *)

LEMMA IndexKept ==
    ASSUME Indexes, Documents, UNCHANGED index,
           \/ UNCHANGED <<uploader, into>>
           \/ \E d \in Doc, u \in User, k \in Kb \cup {NoKb} : Store(d, u, k)
    PROVE  Indexes'
<1>1. \A s \in Scope : \A x \in index[s].chunks : x.doc \in Doc
  BY DEF Indexes
<1>2. CASE UNCHANGED <<uploader, into>>
  BY <1>2 DEF Indexes, Allowed
<1>3. ASSUME NEW d \in Doc, NEW u \in User, NEW k \in Kb \cup {NoKb}, Store(d, u, k)
      PROVE  Indexes'
  <2>1. ASSUME NEW s \in Scope, NEW x \in index[s].chunks
        PROVE  Allowed(s, x.doc)'
    <3>1. Allowed(s, x.doc) /\ x.doc \in Doc /\ uploader[d] = NoUser
      BY <1>1, <1>3 DEF Indexes, Store
    <3>2. x.doc # d
      BY <3>1, KnowledgeBaseAssumption DEF Allowed
    <3>3. uploader'[x.doc] = uploader[x.doc] /\ into'[x.doc] = into[x.doc]
      BY <1>3, <3>1, <3>2 DEF Store, Documents
    <3> QED  BY <3>1, <3>3 DEF Allowed
  <2> QED  BY <2>1 DEF Indexes
<1> QED  BY <1>2, <1>3

(* What a scope holds is allowed in it. *)
LEMMA ChunksAllowed ==
    ASSUME Documents, NEW s \in Scope
    PROVE  /\ ChunksIn(s) \subseteq [doc : Doc, id : 1 .. MaxIds]
           /\ \A x \in ChunksIn(s) : Allowed(s, x.doc)
<1>1. ASSUME NEW x \in ChunksIn(s)
      PROVE  \E d \in Doc : InScope(d, s) /\ \E i \in doc[d].chunks : x = [doc |-> d, id |-> i]
  BY <1>1 DEF ChunksIn
<1>2. ASSUME NEW d \in Doc, InScope(d, s)
      PROVE  Allowed(s, d) /\ doc[d].chunks \subseteq 1 .. MaxIds
  BY <1>2 DEF InScope, Allowed, Documents, DocRow, Present
<1> QED  BY <1>1, <1>2

LEMMA ScopeIsOne ==
    ASSUME Calls, NEW c \in Call, call[c].at \in {"checked", "search"}
    PROVE  ScopeOf(c) \in Scope
<1>1. call[c].user \in User /\ call[c].kb \in Kb \cup {NoKb}
  BY DEF Calls, Request, Sound
<1> QED  BY <1>1 DEF ScopeOf, Scope

LEMMA EnsureKeeps ==
    ASSUME Indexes, Documents, Calls, NEW c \in Call, EnsureBm25(c)
    PROVE  Indexes'
<1> DEFINE s == ScopeOf(c)  built == [built |-> TRUE, chunks |-> ChunksIn(s)]
<1>1. s \in Scope
  BY ScopeIsOne DEF EnsureBm25, Checked
<1>2. \A x \in Scope, d \in Doc : Allowed(x, d)' <=> Allowed(x, d)
  BY DEF EnsureBm25, docs, Allowed
<1>3. index' = index \/ index' = [index EXCEPT ![s] = built]
  BY DEF EnsureBm25, Key
<1>4. /\ built \in [built : BOOLEAN, chunks : SUBSET [doc : Doc, id : 1 .. MaxIds]]
      /\ \A x \in built.chunks : Allowed(s, x.doc)
  BY <1>1, ChunksAllowed
<1> HIDE DEF s, built
<1> QED  BY <1>1, <1>2, <1>3, <1>4 DEF Indexes

-----------------------------------------------------------------------------
LEMMA StoresNext ==
    ASSUME Documents, Attempts, Indexes, Calls, Next
    PROVE  Documents' /\ Attempts' /\ Indexes'
<1>1. UNCHANGED <<docs, pending, nextId, index, late>> => Documents' /\ Attempts' /\ Indexes'
  BY IndexKept DEF docs, Documents, Attempts, Present
<1>2. ASSUME NEW c \in Call, \/ BeginAny(c) \/ BeginAsk(c) \/ Lookup(c) \/ Insert(c)
                             \/ UpdateMemberRole(c) \/ RemoveMember(c) \/ Search(c)
      PROVE  UNCHANGED <<docs, pending, nextId, index, late>>
  BY <1>2 DEF BeginAny, BeginAsk, Begin, Lookup, Insert, UpdateMemberRole, RemoveMember, Search
<1>3. ASSUME NEW u \in User, NEW k \in Kb, CreateKb(u, k)
      PROVE  UNCHANGED <<docs, pending, nextId, index, late>>
  BY <1>3 DEF CreateKb
<1>4. ASSUME NEW d \in Doc, NEW u \in User, NEW k \in Kb \cup {NoKb}, Store(d, u, k)
      PROVE  Documents' /\ Attempts' /\ Indexes'
  <2>1. UNCHANGED index
    BY <1>4 DEF Store
  <2>2. Indexes'
    BY <1>4, <2>1, IndexKept
  <2> QED  BY <1>4, <2>2, StoreKeeps DEF Attempts
<1>5. ASSUME NEW c \in Call, Upload(c)
      PROVE  Documents' /\ Attempts' /\ Indexes'
  <2>1. call[c].user \in User /\ call[c].kb \in Kb \cup {NoKb}
    BY <1>5 DEF Upload, Checked, Calls, Request, Sound
  <2> QED  BY <1>4, <1>5, <2>1 DEF Upload
<1>6. ASSUME NEW c \in Call, DeleteKb(c)
      PROVE  Documents' /\ Attempts' /\ Indexes'
  BY <1>6, DeleteKbChanges, IndexKept DEF Attempts
<1>7. ASSUME NEW c \in Call, EnsureBm25(c)
      PROVE  Documents' /\ Attempts' /\ Indexes'
  BY <1>7, EnsureKeeps DEF EnsureBm25, docs, Documents, Attempts, Present
<1>8. ASSUME NEW d \in Doc, NEW u \in User, UploadPersonal(d, u)
      PROVE  Documents' /\ Attempts' /\ Indexes'
  BY <1>4, <1>8 DEF UploadPersonal
<1>9. ASSUME NEW d \in Doc, NEW u \in User, DeleteDocument(d, u)
      PROVE  Documents' /\ Attempts' /\ Indexes'
  BY <1>9, DeleteDocumentChanges, IndexKept DEF Attempts
<1>10. ASSUME NEW d \in Doc, NEW n \in 1 .. MaxChunks, Allot(d, n)
       PROVE  Documents' /\ Attempts' /\ Indexes'
  BY <1>10, AllotKeeps, IndexKept DEF Documents, Present
<1>11. ASSUME NEW d \in Doc, Commit(d)
       PROVE  Documents' /\ Attempts' /\ Indexes'
  BY <1>11, CommitChanges, IndexKept
<1>12. CASE \E d \in Doc : (\E u \in User : UploadPersonal(d, u) \/ DeleteDocument(d, u))
                           \/ (\E n \in 1 .. MaxChunks : Allot(d, n)) \/ Commit(d)
  BY <1>8, <1>9, <1>10, <1>11, <1>12
<1>13. CASE \E c \in Call : BeginAny(c) \/ BeginAsk(c) \/ Lookup(c) \/ Insert(c) \/ UpdateMemberRole(c)
                            \/ RemoveMember(c) \/ DeleteKb(c) \/ Upload(c) \/ EnsureBm25(c) \/ Search(c)
  BY <1>1, <1>2, <1>5, <1>6, <1>7, <1>13
<1>14. CASE \E u \in User, k \in Kb : CreateKb(u, k)
  BY <1>1, <1>3, <1>14
<1> QED  BY <1>12, <1>13, <1>14 DEF Next

-----------------------------------------------------------------------------
(* The invariant, and what follows from it. *)

LEMMA InitInvariant == Init => IInv
<1> SUFFICES ASSUME Init PROVE IInv
  OBVIOUS
<1>1. Memberships
  BY KnowledgeBaseAssumption DEF Init, Memberships, Row
<1>2. Free \in {x \in Request : Sound(x)}
  BY Names, KnowledgeBaseAssumption DEF Free, Request, Sound
<1>3. Calls
  BY <1>2 DEF Init, Calls
<1>4. Absent \in DocRow /\ Absent.kb = NoKb /\ ~Absent.here
  BY DEF Absent, DocRow
<1>5. Documents
  BY <1>4 DEF Init, Documents, Present
<1>6. Attempts
  BY KnowledgeBaseAssumption DEF Init, Attempts
<1>7. NoIndex \in [built : BOOLEAN, chunks : SUBSET [doc : Doc, id : 1 .. MaxIds]] /\ NoIndex.chunks = {}
  BY DEF NoIndex
<1>8. Indexes
  BY <1>7 DEF Init, Indexes
<1> QED  BY <1>1, <1>3, <1>5, <1>6, <1>8 DEF IInv

LEMMA Stutter == IInv /\ UNCHANGED vars => IInv'
<1> SUFFICES ASSUME IInv, UNCHANGED vars PROVE IInv'
  OBVIOUS
<1>1. Memberships'
  BY DEF IInv, vars, rows, Memberships, OwnerRow
<1>2. Calls'
  BY DEF IInv, vars, Calls
<1>3. Documents' /\ Attempts'
  BY DEF IInv, vars, docs, Documents, Present, Attempts
<1>4. Indexes'
  BY DEF IInv, vars, docs, Indexes, Allowed
<1> QED  BY <1>1, <1>2, <1>3, <1>4 DEF IInv

THEOREM Invariant == Spec => []IInv
<1>1. IInv /\ Next => IInv'
  BY CallsNext, MembershipsNext, StoresNext DEF IInv
<1>2. IInv /\ [Next]_vars => IInv'
  BY <1>1, Stutter
<1> QED  BY InitInvariant, <1>2, PTL DEF Spec

(* Every variable keeps its type. *)
THEOREM TypeCorrect == Spec => []KbTypeOK
<1>1. IInv => KbTypeOK
  BY DEF IInv, Memberships, Calls, Documents, DocRow, Attempts, Indexes, KbTypeOK
<1> QED  BY <1>1, Invariant, PTL

(* knowledge_base.py, 310 and 347: whatever admins do to their memberships at
   the same time, a knowledge base has its creator as its one owner, and no
   member outlives it.                                                     *)
THEOREM OwnerStays == Spec => []OneOwner
<1>1. ASSUME IInv, NEW k \in kbs
      PROVE  {r.user : r \in {m \in members : m.kb = k /\ m.role = "owner"}} = {creator[k]}
  <2>1. OwnerRow(k) \in members /\ OwnerRow(k).kb = k /\ OwnerRow(k).role = "owner"
        /\ OwnerRow(k).user = creator[k]
    BY <1>1 DEF IInv, Memberships, OwnerRow
  <2>2. \A r \in members : r.kb = k /\ r.role = "owner" => r.user = creator[k]
    BY <1>1 DEF IInv, Memberships
  <2> QED  BY <2>1, <2>2
<1>2. IInv => OneOwner
  BY <1>1 DEF OneOwner, IInv, Memberships
<1> QED  BY <1>2, Invariant, PTL

(* knowledge_base.py, 264: however many admins add a user at the same time, he
   has one membership.                                                     *)
THEOREM MembershipIsUnique == Spec => []OneRow
<1>1. ASSUME IInv, NEW k \in Kb, NEW u \in User
      PROVE  Cardinality(RowsOf(k, u)) <= 1
  <2>1. \A r, q \in RowsOf(k, u) : r = q
    BY <1>1 DEF RowsOf, IInv, Memberships
  <2>2. CASE RowsOf(k, u) = {}
    BY <2>2, FS_EmptySet
  <2>3. CASE \E r : RowsOf(k, u) = {r}
    <3>1. PICK r : RowsOf(k, u) = {r}
      BY <2>3
    <3>2. Cardinality({r}) = 1
      BY FS_Singleton
    <3> QED  BY <3>1, <3>2
  <2>4. RowsOf(k, u) = {} \/ \E r : RowsOf(k, u) = {r}
    BY <2>1
  <2> QED  BY <2>2, <2>3, <2>4
<1>2. IInv => OneRow
  BY <1>1 DEF OneRow
<1> QED  BY <1>2, Invariant, PTL

(* Both together, whatever roles have changed between check and act. *)
THEOREM MembershipsStaySound == Spec => []MembershipsSound
BY OwnerStays, MembershipIsUnique, PTL DEF MembershipsSound

(* embeddings.py, 80 and 420: a search meets only what was uploaded to the
   knowledge base it is about, or by the user who asks.                    *)
THEOREM SearchIsAllowed == Spec => []SearchesAllowed
<1>1. ASSUME IInv, NEW c \in Call, call[c].at = "search", NEW x \in index[Key(ScopeOf(c))].chunks
      PROVE  IF call[c].kb = NoKb THEN uploader[x.doc] = call[c].user ELSE into[x.doc] = call[c].kb
  <2>1. ScopeOf(c) \in Scope
    BY <1>1, ScopeIsOne DEF IInv
  <2>2. Allowed(ScopeOf(c), x.doc)
    BY <1>1, <2>1 DEF IInv, Indexes, Key
  <2> QED  BY <2>2, KnowledgeBaseAssumption DEF Allowed, ScopeOf, Personal, Shared
<1>2. IInv => SearchesAllowed
  BY <1>1 DEF SearchesAllowed
<1> QED  BY <1>2, Invariant, PTL

-----------------------------------------------------------------------------
(* A document changes its knowledge base only when that is deleted, and then
   it has none.                                                            *)
LEMMA KbStays ==
    ASSUME IInv, Next, NEW d \in Doc, Present(d), Present(d)', doc'[d].kb # NoKb
    PROVE  doc'[d].kb = doc[d].kb /\ (doc[d].kb \in kbs => doc[d].kb \in kbs')
<1>1. doc \in [Doc -> DocRow] /\ uploader[d] # NoUser
  BY KnowledgeBaseAssumption DEF IInv, Documents
<1>2. ASSUME NEW e \in Doc, NEW u \in User, NEW k \in Kb \cup {NoKb}, Store(e, u, k)
      PROVE  doc'[d].kb = doc[d].kb /\ kbs' = kbs
  BY <1>1, <1>2 DEF Store, rows
<1>3. ASSUME NEW c \in Call, Upload(c)
      PROVE  doc'[d].kb = doc[d].kb /\ kbs' = kbs
  <2>1. call[c].user \in User /\ call[c].kb \in Kb \cup {NoKb}
    BY <1>3 DEF Upload, Checked, IInv, Calls, Request, Sound
  <2> QED  BY <1>2, <1>3, <2>1 DEF Upload
<1>4. ASSUME NEW c \in Call, DeleteKb(c)
      PROVE  doc'[d].kb = doc[d].kb /\ (doc[d].kb \in kbs => doc[d].kb \in kbs')
  <2>1. CASE UNCHANGED <<kbs, members, docs, late>>
    BY <2>1 DEF docs
  <2>2. CASE kbs' = kbs \ {call[c].kb} /\ ChangeDocs(Released(call[c].kb))
    <3>1. doc' = Released(call[c].kb)
      BY <2>2 DEF ChangeDocs
    <3>2. CASE doc[d].kb = call[c].kb
      <4>1. [doc[d] EXCEPT !.kb = NoKb].kb = NoKb
        BY <1>1 DEF DocRow
      <4> QED  BY <3>1, <3>2, <4>1 DEF Released
    <3>3. CASE doc[d].kb # call[c].kb
      BY <2>2, <3>1, <3>3 DEF Released
    <3> QED  BY <3>2, <3>3
  <2> QED  BY <1>4, <2>1, <2>2 DEF DeleteKb
<1>5. ASSUME NEW u \in User, NEW k \in Kb, CreateKb(u, k)
      PROVE  doc' = doc /\ kbs \subseteq kbs'
  BY <1>5 DEF CreateKb, docs
<1>6. ASSUME NEW c \in Call, \/ BeginAny(c) \/ BeginAsk(c) \/ Lookup(c) \/ Insert(c)
                             \/ UpdateMemberRole(c) \/ RemoveMember(c) \/ Search(c) \/ EnsureBm25(c)
      PROVE  doc' = doc /\ kbs' = kbs
  BY <1>6 DEF BeginAny, BeginAsk, Begin, Lookup, Insert, UpdateMemberRole, RemoveMember, Search,
             EnsureBm25, docs, rows
<1>7. ASSUME NEW e \in Doc, NEW u \in User, DeleteDocument(e, u)
      PROVE  doc'[d].kb = doc[d].kb /\ kbs' = kbs
  <2>1. doc' = [doc EXCEPT ![e] = Absent] /\ kbs' = kbs
    BY <1>7 DEF DeleteDocument, ChangeDocs, rows
  <2> QED  BY <1>1, <2>1 DEF Absent
<1>8. ASSUME NEW e \in Doc, NEW n \in 1 .. MaxChunks, Allot(e, n)
      PROVE  doc' = doc /\ kbs' = kbs
  BY <1>8 DEF Allot, docs, rows
<1>9. ASSUME NEW e \in Doc, Commit(e)
      PROVE  doc'[d].kb = doc[d].kb /\ kbs' = kbs
  <2>1. kbs' = kbs /\ (doc' = doc \/ doc' = [doc EXCEPT ![e].chunks = pending[e]])
    BY <1>9 DEF Commit, ChangeDocs, docs, rows
  <2>2. [doc[d] EXCEPT !.chunks = pending[e]].kb = doc[d].kb
    BY <1>1 DEF DocRow
  <2>3. CASE doc' = [doc EXCEPT ![e].chunks = pending[e]]
    BY <1>1, <2>1, <2>2, <2>3
  <2> QED  BY <2>1, <2>3
<1>10. CASE \E e \in Doc : (\E u \in User : UploadPersonal(e, u) \/ DeleteDocument(e, u))
                           \/ (\E n \in 1 .. MaxChunks : Allot(e, n)) \/ Commit(e)
  BY <1>2, <1>7, <1>8, <1>9, <1>10 DEF UploadPersonal
<1>11. CASE \E c \in Call : BeginAny(c) \/ BeginAsk(c) \/ Lookup(c) \/ Insert(c) \/ UpdateMemberRole(c)
                            \/ RemoveMember(c) \/ DeleteKb(c) \/ Upload(c) \/ EnsureBm25(c) \/ Search(c)
  BY <1>3, <1>4, <1>6, <1>11
<1>12. CASE \E u \in User, k \in Kb : CreateKb(u, k)
  BY <1>5, <1>12
<1> QED  BY <1>10, <1>11, <1>12 DEF Next

(* knowledge_base.py, 203: no document that its uploader could see goes from
   his list with its knowledge base.                                       *)
THEOREM DocumentsAreKept == Spec => DeletionKeepsDocuments
<1> DEFINE Kept(d) == Listed(d) /\ Present(d)' => Listed(d)' \/ doc'[d].kb \in kbs'
<1>1. ASSUME IInv, Next, NEW d \in Doc, Listed(d), Present(d)'
      PROVE  Listed(d)' \/ doc'[d].kb \in kbs'
  <2>1. CASE doc'[d].kb = NoKb
    BY <1>1, <2>1 DEF Listed
  <2>2. CASE doc'[d].kb # NoKb /\ doc[d].kb = NoKb
    BY <1>1, <2>2, KbStays DEF Listed
  <2>3. CASE doc'[d].kb # NoKb /\ doc[d].kb # NoKb
    <3>1. Present(d) /\ doc[d].kb \in kbs
      BY <1>1, <2>3 DEF Listed, RowsOf, IInv, Memberships
    <3> QED  BY <1>1, <2>3, <3>1, KbStays
  <2> QED  BY <2>1, <2>2, <2>3
<1>2. IInv /\ [Next]_vars => [\A d \in Doc : Kept(d)]_vars
  BY <1>1
<1> QED  BY <1>2, Invariant, PTL DEF Spec, DeletionKeepsDocuments
-----------------------------------------------------------------------------
(* The cached index is that of the table. *)

(* Ids of chunk rows are never given twice: a document owns those it has, is
   about to have, or is found under in an index.                           *)
Owns(d, i) ==
    \/ i \in doc[d].chunks \cup pending[d]
    \/ \E s \in Scope : [doc |-> d, id |-> i] \in index[s].chunks

Numbered ==
    /\ \A d \in Doc, i \in 1 .. MaxIds : Owns(d, i) => i < nextId
    /\ \A c, d \in Doc, i \in 1 .. MaxIds : Owns(c, i) /\ Owns(d, i) => c = d

(* A chunk that is to be committed was never seen ... *)
Unseen ==
    \A d \in Doc : \A i \in pending[d] :
        i \notin doc[d].chunks /\ \A s \in Scope : [doc |-> d, id |-> i] \notin index[s].chunks

(* ... and one that has left a scope does not return: a document that was
   found among the personal ones belongs to no knowledge base any more.    *)
Settled ==
    \A s \in Scope : \A x \in index[s].chunks : s.kb = NoKb => doc[x.doc].kb = NoKb

(* What has come since an index was built is newer than what has stayed. *)
Newer(s) ==
    s \notin late =>
        \A x \in index[s].chunks \cap ChunksIn(s) :
            \A c \in ChunksIn(s) \ index[s].chunks : x.id < c.id

FreshInv == Numbered /\ Unseen /\ Settled /\ \A s \in Scope : Newer(s)

LEMMA Chunk ==
    ASSUME NEW s \in Scope, NEW x \in ChunksIn(s), Documents
    PROVE  /\ x.doc \in Doc /\ x.id \in 1 .. MaxIds /\ x = [doc |-> x.doc, id |-> x.id]
           /\ InScope(x.doc, s) /\ x.id \in doc[x.doc].chunks
<1>1. PICK d \in Doc : InScope(d, s) /\ \E i \in doc[d].chunks : x = [doc |-> d, id |-> i]
  BY DEF ChunksIn
<1> QED  BY <1>1 DEF Documents, DocRow

LEMMA ChunkIn ==
    ASSUME NEW s \in Scope, NEW d \in Doc, InScope(d, s), NEW i \in doc[d].chunks
    PROVE  [doc |-> d, id |-> i] \in ChunksIn(s)
BY DEF ChunksIn

LEMMA Entry ==
    ASSUME NEW s \in Scope, NEW x \in index[s].chunks, Indexes
    PROVE  x.doc \in Doc /\ x.id \in 1 .. MaxIds /\ x = [doc |-> x.doc, id |-> x.id]
<1>1. x \in [doc : Doc, id : 1 .. MaxIds]
  BY DEF Indexes
<1> QED  BY <1>1

-----------------------------------------------------------------------------
(* The newest of a set of chunks. *)

LEMMA Least ==
    ASSUME NEW T \in SUBSET Nat, T # {}
    PROVE  \E t \in T : \A u \in T : t <= u
<1> DEFINE R == OpToRel(<, Nat)
<1>1. IsWellFoundedOn(R, Nat)
  BY NatLessThanWellFounded
<1>2. \A u, v \in Nat : <<u, v>> \in R <=> u < v
  BY DEF OpToRel
<1> HIDE DEF R
<1>3. \E t \in T : \A u \in T : ~(<<u, t>> \in R)
  BY <1>1, WFMin
<1>4. PICK t \in T : \A u \in T : ~(<<u, t>> \in R)
  BY <1>3
<1>5. ASSUME NEW u \in T PROVE t <= u
  <2>1. t \in Nat /\ u \in Nat
    OBVIOUS
  <2>2. ~(u < t)
    BY <1>2, <1>4, <2>1, Zenon
  <2> QED  BY <2>1, <2>2
<1> QED  BY <1>4, <1>5

LEMMA Greatest ==
    ASSUME NEW S \in SUBSET (1 .. MaxIds), S # {}
    PROVE  Max(S) \in S /\ \A y \in S : Max(S) >= y
<1> DEFINE T == {MaxIds - y : y \in S}
<1>1. \A y \in S : y \in Int /\ MaxIds - y \in Nat
  BY KnowledgeBaseAssumption
<1>2. T \in SUBSET Nat /\ T # {}
  BY <1>1
<1>3. PICK t \in T : \A u \in T : t <= u
  <2> HIDE DEF T
  <2> QED  BY <1>2, Least
<1>4. PICK x \in S : t = MaxIds - x
  BY <1>3
<1>5. \A y \in S : MaxIds - x <= MaxIds - y
  BY <1>3, <1>4
<1>6. \A y \in S : x >= y
  BY <1>1, <1>5, KnowledgeBaseAssumption
<1> QED  BY <1>6 DEF Max
LEMMA NewestOf ==
    ASSUME NEW C \in SUBSET [doc : Doc, id : 1 .. MaxIds], C # {}
    PROVE  /\ \E x \in C : x.id = Newest(C)
           /\ \A x \in C : x.id <= Newest(C)
<1> DEFINE S == {x.id : x \in C}
<1>1. S \in SUBSET (1 .. MaxIds) /\ S # {}
  OBVIOUS
<1>2. Max(S) \in S /\ \A y \in S : Max(S) >= y
  <2> HIDE DEF S
  <2> QED  BY <1>1, Greatest
<1>3. Newest(C) = Max(S)
  BY DEF Newest
<1>4. \A x \in C : x.id \in S /\ x.id \in Nat
  OBVIOUS
<1>5. \A y \in S : \E x \in C : x.id = y
  OBVIOUS
<1>6. Max(S) \in Nat
  BY <1>1, <1>2
<1> HIDE DEF S
<1> QED  BY <1>2, <1>3, <1>4, <1>5, <1>6

(* Chunks whose ids differ are finitely many. *)
LEMMA FewChunks ==
    ASSUME NEW C \in SUBSET [doc : Doc, id : 1 .. MaxIds],
           \A x, y \in C : x.id = y.id => x.doc = y.doc
    PROVE  IsFiniteSet(C) /\ Cardinality(C) \in Nat
<1> DEFINE f == [x \in C |-> x.id]
<1>1. \A x \in C : x.id \in 1 .. MaxIds /\ x = [doc |-> x.doc, id |-> x.id]
  OBVIOUS
<1>2. f \in Injection(C, 1 .. MaxIds)
  BY <1>1 DEF Injection, IsInjective
<1>3. IsFiniteSet(1 .. MaxIds)
  BY FS_Interval, KnowledgeBaseAssumption
<1>4. IsFiniteSet(C)
  <2> HIDE DEF f
  <2> QED  BY <1>2, <1>3, FS_Injection
<1> QED  BY <1>4, FS_CardinalityType

(* Two owners of an id are one, whether in a scope or in its index. *)
LEMMA OneOwnerOfId ==
    ASSUME Documents, Indexes, Numbered, NEW s \in Scope,
           NEW x \in ChunksIn(s) \cup index[s].chunks, NEW y \in ChunksIn(s) \cup index[s].chunks,
           x.id = y.id
    PROVE  x = y
<1>1. ASSUME NEW z \in ChunksIn(s) \cup index[s].chunks
      PROVE  /\ z.doc \in Doc /\ z.id \in 1 .. MaxIds /\ z = [doc |-> z.doc, id |-> z.id]
             /\ Owns(z.doc, z.id)
  <2>1. CASE z \in ChunksIn(s)
    BY <2>1, Chunk DEF Owns
  <2>2. CASE z \in index[s].chunks
    BY <2>2, Entry DEF Owns
  <2> QED  BY <1>1, <2>1, <2>2
<1>2. x.doc = y.doc
  BY <1>1 DEF Numbered
<1> QED  BY <1>1, <1>2

(* Number and newest id tell whether an index is that of the table, unless a
   chunk has come in below the newest.                                     *)
LEMMA FingerprintTells ==
    ASSUME Documents, Indexes, FreshInv, NEW s \in Scope, s \notin late,
           Fingerprint(index[s].chunks) = Fingerprint(ChunksIn(s))
    PROVE  index[s].chunks = ChunksIn(s)
<1> DEFINE I == index[s].chunks  C == ChunksIn(s)
<1>1. C \in SUBSET [doc : Doc, id : 1 .. MaxIds] /\ I \in SUBSET [doc : Doc, id : 1 .. MaxIds]
  BY ChunksAllowed DEF Indexes
<1>2. \A x, y \in C \cup I : x.id = y.id => x = y
  BY OneOwnerOfId DEF FreshInv
<1>3. Cardinality(I) = Cardinality(C) /\ Newest(I) = Newest(C)
  BY DEF Fingerprint
<1>4. \A x \in I \cap C : \A c \in C \ I : x.id < c.id
  BY DEF FreshInv, Newer
<1> HIDE DEF I, C
<1>5. IsFiniteSet(C) /\ IsFiniteSet(I)
  BY <1>1, <1>2, FewChunks
<1>6. I = C
  <2>1. CASE C = {} \/ I = {}
    <3>1. (Cardinality(C) = 0 <=> C = {}) /\ (Cardinality(I) = 0 <=> I = {})
      BY <1>5, FS_EmptySet
    <3> QED  BY <1>3, <2>1, <3>1
  <2>2. CASE C # {} /\ I # {}
    <3>1. PICK x \in C : x.id = Newest(C)
      BY <1>1, <2>2, NewestOf
    <3>2. PICK y \in I : y.id = Newest(I)
      BY <1>1, <2>2, NewestOf
    <3>3. x = y
      BY <1>2, <1>3, <3>1, <3>2
    <3>4. ASSUME NEW c \in C, c \notin I
          PROVE  FALSE
      <4>1. x.id < c.id
        BY <1>4, <3>1, <3>2, <3>3, <3>4
      <4>2. c.id <= x.id
        BY <1>1, <2>2, <3>1, NewestOf
      <4>3. x.id \in Nat /\ c.id \in Nat
        BY <1>1
      <4> QED  BY <4>1, <4>2, <4>3
    <3>5. C \in SUBSET I
      BY <3>4
    <3>6. Cardinality(I) = Cardinality(C) => I = C
      BY <1>5, <3>5, FS_Subset
    <3> QED  BY <1>3, <3>6
  <2> QED  BY <2>1, <2>2
<1> QED  BY <1>6 DEF I, C

-----------------------------------------------------------------------------
(* The steps that do not change what a scope holds. *)

LEMMA UnchangedIsFresh ==
    ASSUME FreshInv, UNCHANGED <<doc, uploader, pending, nextId, index, late>>
    PROVE  FreshInv'
<1>1. Numbered' /\ Unseen' /\ Settled'
  BY DEF FreshInv, Numbered, Owns, Unseen, Settled
<1>2. \A s \in Scope : Newer(s)'
  BY DEF FreshInv, Newer, ChunksIn, InScope, Present
<1> QED  BY <1>1, <1>2 DEF FreshInv

(* A document that is uploaded has no chunks yet, and was never there. *)
LEMMA StoreIsFresh ==
    ASSUME Documents, Indexes, FreshInv, NEW d \in Doc, NEW u \in User, NEW k \in Kb \cup {NoKb},
           Store(d, u, k)
    PROVE  FreshInv'
<1>1. /\ doc' = [doc EXCEPT ![d] = [here |-> TRUE, kb |-> k, chunks |-> {}]]
      /\ uploader' = [uploader EXCEPT ![d] = u] /\ UNCHANGED <<pending, nextId, index, late>>
      /\ uploader[d] = NoUser
  BY DEF Store
<1>2. ~Present(d)
  BY <1>1, KnowledgeBaseAssumption DEF Documents
<1>3. /\ doc'[d].chunks = {} /\ doc \in [Doc -> DocRow]
      /\ \A e \in Doc \ {d} : doc'[e] = doc[e] /\ uploader'[e] = uploader[e]
  BY <1>1 DEF Documents
<1>4. ASSUME NEW e \in Doc, NEW i \in 1 .. MaxIds, Owns(e, i)'
      PROVE  Owns(e, i)
  BY <1>1, <1>3, <1>4 DEF Owns
<1>5. Numbered'
  BY <1>1, <1>4 DEF FreshInv, Numbered
<1>6. Unseen'
  BY <1>1, <1>3 DEF FreshInv, Unseen
<1>7. Settled'
  <2>1. ASSUME NEW s \in Scope, NEW x \in index[s].chunks
        PROVE  x.doc \in Doc /\ x.doc # d
    BY <1>1, Entry, KnowledgeBaseAssumption DEF Indexes, Allowed
  <2> QED  BY <1>1, <1>3, <2>1 DEF FreshInv, Settled
<1>8. ASSUME NEW s \in Scope
      PROVE  ChunksIn(s)' = ChunksIn(s)
  <2>1. \A e \in Doc \ {d} : InScope(e, s)' <=> InScope(e, s)
    BY <1>3 DEF InScope, Present
  <2>2. ASSUME NEW x \in ChunksIn(s) PROVE x \in ChunksIn(s)'
    <3>1. PICK e \in Doc : InScope(e, s) /\ \E i \in doc[e].chunks : x = [doc |-> e, id |-> i]
      BY DEF ChunksIn
    <3>2. e # d
      BY <1>2, <3>1 DEF InScope
    <3>3. InScope(e, s)' /\ \E i \in doc'[e].chunks : x = [doc |-> e, id |-> i]
      BY <1>3, <2>1, <3>1, <3>2
    <3> QED  BY <3>3 DEF ChunksIn
  <2>3. ASSUME NEW x \in ChunksIn(s)' PROVE x \in ChunksIn(s)
    <3>1. PICK e \in Doc : InScope(e, s)' /\ \E i \in doc'[e].chunks : x = [doc |-> e, id |-> i]
      BY DEF ChunksIn
    <3>2. e # d
      BY <1>3, <3>1
    <3>3. InScope(e, s) /\ \E i \in doc[e].chunks : x = [doc |-> e, id |-> i]
      BY <1>3, <2>1, <3>1, <3>2
    <3> QED  BY <3>3 DEF ChunksIn
  <2> QED  BY <2>2, <2>3
<1>9. \A s \in Scope : Newer(s)'
  BY <1>1, <1>8 DEF FreshInv, Newer
<1> QED  BY <1>5, <1>6, <1>7, <1>9 DEF FreshInv

(* The sequence gives ids that nobody owns. *)
LEMMA AllotIsFresh ==
    ASSUME Documents, Attempts, Indexes, FreshInv, NEW d \in Doc, NEW n \in 1 .. MaxChunks, Allot(d, n)
    PROVE  FreshInv'
<1> DEFINE fresh == nextId .. nextId + n - 1
<1>1. /\ pending[d] = {} /\ pending' = [pending EXCEPT ![d] = fresh] /\ nextId' = nextId + n
      /\ UNCHANGED <<doc, uploader, index, late>>
  BY DEF Allot, docs
<1>2. nextId \in Nat /\ n \in Nat /\ MaxIds \in Nat
  BY KnowledgeBaseAssumption DEF Attempts
<1>3. \A i \in fresh : i \in Nat /\ i >= nextId /\ i < nextId + n
  BY <1>2
<1>4. /\ pending'[d] = fresh /\ \A e \in Doc \ {d} : pending'[e] = pending[e]
  BY <1>1 DEF Attempts
<1> HIDE DEF fresh
<1>5. ASSUME NEW e \in Doc, NEW i, Owns(e, i)'
      PROVE  Owns(e, i) \/ (e = d /\ i \in fresh)
  <2>1. \/ i \in doc[e].chunks \cup pending'[e]
        \/ \E s \in Scope : [doc |-> e, id |-> i] \in index[s].chunks
    BY <1>1, <1>5 DEF Owns
  <2>2. CASE e = d
    BY <1>4, <2>1, <2>2 DEF Owns
  <2>3. CASE e # d
    BY <1>4, <2>1, <2>3 DEF Owns
  <2> QED  BY <2>2, <2>3
<1>6. ASSUME NEW e \in Doc, NEW i \in 1 .. MaxIds, Owns(e, i)
      PROVE  i < nextId /\ i \notin fresh
  BY <1>2, <1>3, <1>6 DEF FreshInv, Numbered
<1>7. Numbered'
  <2>1. ASSUME NEW e \in Doc, NEW i \in 1 .. MaxIds, Owns(e, i)'
        PROVE  i < nextId'
    BY <1>1, <1>2, <1>3, <1>5, <1>6, <2>1
  <2>2. ASSUME NEW b \in Doc, NEW e \in Doc, NEW i \in 1 .. MaxIds, Owns(b, i)', Owns(e, i)'
        PROVE  b = e
    BY <1>5, <1>6, <2>2 DEF FreshInv, Numbered
  <2> QED  BY <2>1, <2>2 DEF Numbered
<1>8. Unseen'
  <2>1. ASSUME NEW i \in fresh
        PROVE  i \notin doc[d].chunks /\ \A s \in Scope : [doc |-> d, id |-> i] \notin index[s].chunks
    <3>1. i \in doc[d].chunks => i \in 1 .. MaxIds /\ Owns(d, i)
      BY DEF Documents, DocRow, Owns
    <3>2. \A s \in Scope : [doc |-> d, id |-> i] \in index[s].chunks => i \in 1 .. MaxIds /\ Owns(d, i)
      BY Entry DEF Owns
    <3> QED  BY <1>6, <3>1, <3>2
  <2> QED  BY <1>1, <1>4, <2>1 DEF FreshInv, Unseen
<1>9. Settled'
  BY <1>1 DEF FreshInv, Settled
<1>10. \A s \in Scope : Newer(s)'
  BY <1>1 DEF FreshInv, Newer, ChunksIn, InScope, Present
<1> QED  BY <1>7, <1>8, <1>9, <1>10 DEF FreshInv

(* An index that is built is the table's; nothing is newer than the table. *)
LEMMA EnsureIsFresh ==
    ASSUME Documents, Attempts, Indexes, Calls, FreshInv, NEW c \in Call, EnsureBm25(c)
    PROVE  FreshInv'
<1> DEFINE t == ScopeOf(c)  built == [built |-> TRUE, chunks |-> ChunksIn(t)]
<1>1. t \in Scope
  BY ScopeIsOne DEF EnsureBm25, Checked
<1>2. UNCHANGED <<doc, uploader, pending, nextId, late>>
  BY DEF EnsureBm25, docs
<1>3. index' = index \/ index' = [index EXCEPT ![t] = built]
  BY DEF EnsureBm25, Key
<1>4. built.chunks = ChunksIn(t)
  OBVIOUS
<1> HIDE DEF t, built
<1>5. CASE index' = index
  BY <1>2, <1>5, UnchangedIsFresh
<1>6. CASE index' = [index EXCEPT ![t] = built]
  <2>1. /\ index'[t].chunks = ChunksIn(t)
        /\ \A s \in Scope \ {t} : index'[s].chunks = index[s].chunks
    BY <1>1, <1>4, <1>6 DEF Indexes
  <2>2. \A s \in Scope : ChunksIn(s)' = ChunksIn(s)
    BY <1>2 DEF ChunksIn, InScope, Present
  <2>3. ASSUME NEW s \in Scope, NEW x \in index'[s].chunks, x \notin index[s].chunks
        PROVE  /\ s = t /\ x.doc \in Doc /\ x = [doc |-> x.doc, id |-> x.id]
               /\ InScope(x.doc, s) /\ x.id \in doc[x.doc].chunks
    BY <1>1, <2>1, <2>3, Chunk
  <2>4. ASSUME NEW e \in Doc, NEW i \in 1 .. MaxIds, Owns(e, i)'
        PROVE  Owns(e, i)
    <3>1. CASE i \in doc[e].chunks \cup pending[e]
      BY <3>1 DEF Owns
    <3>2. CASE \E s \in Scope : [doc |-> e, id |-> i] \in index'[s].chunks
      <4>1. PICK s \in Scope : [doc |-> e, id |-> i] \in index'[s].chunks
        BY <3>2
      <4>2. CASE [doc |-> e, id |-> i] \in index[s].chunks
        BY <4>2 DEF Owns
      <4>3. CASE [doc |-> e, id |-> i] \notin index[s].chunks
        <5>1. i \in doc[e].chunks
          BY <2>3, <4>1, <4>3
        <5> QED  BY <5>1 DEF Owns
      <4> QED  BY <4>2, <4>3
    <3> QED  BY <1>2, <2>4, <3>1, <3>2 DEF Owns
  <2>5. Numbered'
    BY <1>2, <2>4 DEF FreshInv, Numbered
  <2>6. Unseen'
    <3>1. ASSUME NEW e \in Doc, NEW i \in pending[e], NEW s \in Scope,
                 [doc |-> e, id |-> i] \in index'[s].chunks
          PROVE  FALSE
      <4>1. [doc |-> e, id |-> i] \notin index[s].chunks /\ i \notin doc[e].chunks
        BY DEF FreshInv, Unseen
      <4> QED  BY <2>3, <3>1, <4>1
    <3> QED  BY <1>2, <3>1 DEF FreshInv, Unseen
  <2>7. Settled'
    <3>1. ASSUME NEW s \in Scope, NEW x \in index'[s].chunks, s.kb = NoKb
          PROVE  doc[x.doc].kb = NoKb
      BY <2>3, <3>1 DEF FreshInv, Settled, InScope
    <3> QED  BY <1>2, <3>1 DEF Settled
  <2>8. ASSUME NEW s \in Scope PROVE Newer(s)'
    <3>1. CASE s = t
      BY <2>1, <2>2, <3>1 DEF Newer
    <3>2. CASE s # t
      BY <1>2, <2>1, <2>2, <3>2 DEF FreshInv, Newer
    <3> QED  BY <3>1, <3>2
  <2> QED  BY <2>5, <2>6, <2>7, <2>8 DEF FreshInv
<1> QED  BY <1>3, <1>5, <1>6

-----------------------------------------------------------------------------
(* How the steps change what a scope holds. *)

(* Rows change to rows that were there or pending, and a document stays in
   its knowledge base or leaves it.                                        *)
LEMMA ChangeIsFresh ==
    ASSUME Documents, Attempts, Indexes, FreshInv, NEW new \in [Doc -> DocRow], ChangeDocs(new),
           UNCHANGED <<nextId, index>>, pending' \in [Doc -> SUBSET (1 .. MaxIds)],
           \A d \in Doc : /\ new[d].chunks \subseteq doc[d].chunks \cup pending[d]
                          /\ pending'[d] \subseteq pending[d]
                          /\ new[d].chunks \cap pending'[d] = {}
                          /\ new[d].kb = doc[d].kb \/ new[d].kb = NoKb
                          /\ new[d].here => Present(d)
    PROVE  FreshInv'
<1>1. doc' = new /\ UNCHANGED <<uploader, into>>
  BY DEF ChangeDocs
<1>2. ASSUME NEW d \in Doc, NEW i \in 1 .. MaxIds, Owns(d, i)'
      PROVE  Owns(d, i)
  BY <1>1, <1>2 DEF Owns
<1>3. Numbered'
  BY <1>2 DEF FreshInv, Numbered
<1>4. Unseen'
  BY <1>1 DEF FreshInv, Unseen
<1>5. Settled'
  <2>1. ASSUME NEW s \in Scope, NEW x \in index[s].chunks, s.kb = NoKb
        PROVE  new[x.doc].kb = NoKb
    <3>1. doc[x.doc].kb = NoKb /\ x.doc \in Doc
      BY <2>1, Entry DEF FreshInv, Settled
    <3> QED  BY <3>1
  <2> QED  BY <1>1, <2>1 DEF Settled
<1>6. ASSUME NEW s \in Scope, s \notin late',
             NEW x \in index[s].chunks, x \in ChunksIn(s)',
             NEW c \in ChunksIn(s)', c \notin index[s].chunks
      PROVE  x.id < c.id
  <2>1. PICK d \in Doc, i \in 1 .. MaxIds :
            /\ i \in new[d].chunks
            /\ c = [doc |-> d, id |-> i] /\ new[d].here /\ new[d].kb = s.kb
            /\ s.kb = NoKb => uploader[d] = s.user
    BY <1>1 DEF ChunksIn, InScope, Present, DocRow
  <2>2. i \in 1 .. MaxIds /\ c.doc = d /\ c.id = i
    BY <2>1 DEF DocRow
  <2>3. /\ x.doc \in Doc /\ x.id \in 1 .. MaxIds /\ x = [doc |-> x.doc, id |-> x.id]
        /\ Owns(x.doc, x.id)
    BY Entry DEF Owns
  <2>4. ASSUME x.id = i PROVE x.doc = d
    <3>1. Owns(d, i)
      BY <2>1, <2>2 DEF Owns
    <3> QED  BY <2>2, <2>3, <2>4, <3>1 DEF FreshInv, Numbered
  <2>5. ASSUME x.id = i PROVE FALSE
    <3>1. x = c
      BY <2>1, <2>3, <2>4, <2>5
    <3> QED  BY <1>6, <3>1
  <2>6. x \in ChunksIn(s)
    <3>1. PICK e \in Doc, j \in 1 .. MaxIds :
              /\ j \in new[e].chunks
              /\ x = [doc |-> e, id |-> j] /\ new[e].here /\ new[e].kb = s.kb
              /\ s.kb = NoKb => uploader[e] = s.user
      BY <1>1, <1>6 DEF ChunksIn, InScope, Present, DocRow
    <3>2. x.doc = e /\ x.id = j
      BY <3>1
    <3>3. j \notin pending[e]
      BY <3>1 DEF FreshInv, Unseen
    <3>4. s.kb = NoKb => doc[e].kb = NoKb
      BY <3>2 DEF FreshInv, Settled
    <3>5. Present(e) /\ j \in doc[e].chunks /\ doc[e].kb = s.kb
      BY <3>1, <3>3, <3>4
    <3>6. InScope(e, s)
      BY <3>1, <3>5 DEF InScope
    <3> QED  BY <3>1, <3>5, <3>6, ChunkIn
  <2>7. s \notin late
    BY <1>6 DEF ChangeDocs
  <2>8. CASE c \in ChunksIn(s)
    BY <1>6, <2>6, <2>7, <2>8 DEF FreshInv, Newer
  <2>9. CASE c \notin ChunksIn(s)
    <3>1. ~(c.id < Newest(ChunksIn(s)))
      BY <1>6, <2>9 DEF ChangeDocs
    <3>2. x.id <= Newest(ChunksIn(s)) /\ Newest(ChunksIn(s)) \in Nat
      <4>1. ChunksIn(s) \in SUBSET [doc : Doc, id : 1 .. MaxIds] /\ ChunksIn(s) # {}
        BY <2>6, ChunksAllowed
      <4>2. \A y \in ChunksIn(s) : y.id \in Nat
        BY <4>1
      <4> QED  BY <2>6, <4>1, <4>2, NewestOf
    <3> QED  BY <2>2, <2>3, <2>5, <3>1, <3>2
  <2> QED  BY <2>8, <2>9
<1>7. \A s \in Scope : Newer(s)'
  BY <1>6 DEF Newer
<1> QED  BY <1>3, <1>4, <1>5, <1>7 DEF FreshInv

LEMMA DeleteKbIsFresh ==
    ASSUME Documents, Attempts, Indexes, FreshInv, NEW c \in Call, DeleteKb(c)
    PROVE  FreshInv'
<1> DEFINE k == call[c].kb  new == Released(k)
<1>1. UNCHANGED <<pending, nextId, index>>
  BY DEF DeleteKb
<1>2. CASE UNCHANGED <<docs, late>>
  BY <1>1, <1>2, UnchangedIsFresh DEF docs
<1>3. CASE ChangeDocs(new)
  <2>1. ASSUME NEW d \in Doc
        PROVE  /\ [doc[d] EXCEPT !.kb = NoKb] \in DocRow
               /\ [doc[d] EXCEPT !.kb = NoKb].kb = NoKb
               /\ [doc[d] EXCEPT !.kb = NoKb].here = doc[d].here
               /\ [doc[d] EXCEPT !.kb = NoKb].chunks = doc[d].chunks
    BY DEF Documents, DocRow
  <2>2. /\ new \in [Doc -> DocRow]
        /\ \A d \in Doc : /\ new[d].chunks = doc[d].chunks /\ new[d].here = Present(d)
                          /\ new[d].kb = IF doc[d].kb = k THEN NoKb ELSE doc[d].kb
    BY <2>1 DEF Released, Documents, Present
  <2>3. \A d \in Doc : doc[d].chunks \cap pending[d] = {}
    BY DEF FreshInv, Unseen
  <2> HIDE DEF new
  <2>4. pending' \in [Doc -> SUBSET (1 .. MaxIds)]
    BY <1>1 DEF Attempts
  <2>5. \A d \in Doc : /\ new[d].chunks \subseteq doc[d].chunks \cup pending[d]
                       /\ pending'[d] \subseteq pending[d]
                       /\ new[d].chunks \cap pending'[d] = {}
                       /\ new[d].kb = doc[d].kb \/ new[d].kb = NoKb
                       /\ new[d].here => Present(d)
    BY <1>1, <2>2, <2>3
  <2> QED  BY <1>1, <1>3, <2>2, <2>4, <2>5, ChangeIsFresh
<1> QED  BY <1>2, <1>3 DEF DeleteKb

LEMMA CommitIsFresh ==
    ASSUME Documents, Attempts, Indexes, FreshInv, NEW d \in Doc, Commit(d)
    PROVE  FreshInv'
<1> DEFINE new == [doc EXCEPT ![d].chunks = pending[d]]
<1>1. pending' = [pending EXCEPT ![d] = {}] /\ UNCHANGED <<nextId, index>>
  BY DEF Commit
<1>2. pending' \in [Doc -> SUBSET (1 .. MaxIds)] /\ \A e \in Doc : pending'[e] \subseteq pending[e]
  BY <1>1 DEF Attempts
<1>3. CASE UNCHANGED <<docs, late>>
  <2>1. \A e \in Doc, i \in 1 .. MaxIds : Owns(e, i)' => Owns(e, i)
    BY <1>1, <1>2, <1>3 DEF Owns, docs
  <2>2. Numbered'
    BY <1>1, <2>1 DEF FreshInv, Numbered
  <2>3. Unseen' /\ Settled'
    BY <1>1, <1>2, <1>3 DEF FreshInv, Unseen, Settled, docs
  <2>4. \A s \in Scope : Newer(s)'
    BY <1>1, <1>3 DEF FreshInv, Newer, ChunksIn, InScope, Present, docs
  <2> QED  BY <2>2, <2>3, <2>4 DEF FreshInv
<1>4. CASE Present(d) /\ ChangeDocs(new)
  <2>1. /\ [doc[d] EXCEPT !.chunks = pending[d]] \in DocRow
        /\ [doc[d] EXCEPT !.chunks = pending[d]].kb = doc[d].kb
        /\ [doc[d] EXCEPT !.chunks = pending[d]].here = doc[d].here
        /\ [doc[d] EXCEPT !.chunks = pending[d]].chunks = pending[d]
    BY DEF Documents, DocRow, Attempts
  <2>2. new = [doc EXCEPT ![d] = [doc[d] EXCEPT !.chunks = pending[d]]]
    BY DEF Documents
  <2>3. /\ new \in [Doc -> DocRow]
        /\ \A e \in Doc : /\ new[e].kb = doc[e].kb /\ new[e].here = Present(e)
                          /\ new[e].chunks = IF e = d THEN pending[d] ELSE doc[e].chunks
    BY <2>1, <2>2 DEF Documents, Present
  <2>4. \A e \in Doc : doc[e].chunks \cap pending[e] = {}
    BY DEF FreshInv, Unseen
  <2>5. pending'[d] = {}
    BY <1>1 DEF Attempts
  <2> HIDE DEF new
  <2>6. \A e \in Doc : new[e].chunks \cap pending'[e] = {}
    BY <1>2, <2>3, <2>4, <2>5
  <2>7. \A e \in Doc : /\ new[e].chunks \subseteq doc[e].chunks \cup pending[e]
                       /\ new[e].kb = doc[e].kb \/ new[e].kb = NoKb
                       /\ new[e].here => Present(e)
    BY <2>3
  <2> QED  BY <1>1, <1>2, <1>4, <2>3, <2>6, <2>7, ChangeIsFresh
<1> QED  BY <1>3, <1>4 DEF Commit

LEMMA DeleteDocumentIsFresh ==
    ASSUME Documents, Attempts, Indexes, FreshInv, NEW d \in Doc, NEW u \in User, DeleteDocument(d, u)
    PROVE  FreshInv'
<1> DEFINE new == [doc EXCEPT ![d] = Absent]
<1>1. ChangeDocs(new) /\ UNCHANGED <<pending, nextId, index>>
  BY DEF DeleteDocument
<1>2. Absent \in DocRow /\ Absent.kb = NoKb /\ ~Absent.here /\ Absent.chunks = {}
  BY DEF Absent, DocRow
<1>3. /\ new \in [Doc -> DocRow]
      /\ \A e \in Doc : new[e] = IF e = d THEN Absent ELSE doc[e]
  BY <1>2 DEF Documents
<1>4. \A e \in Doc : doc[e].chunks \cap pending[e] = {}
  BY DEF FreshInv, Unseen
<1>5. pending' \in [Doc -> SUBSET (1 .. MaxIds)]
  BY <1>1 DEF Attempts
<1> HIDE DEF new
<1>6. \A e \in Doc : /\ new[e].chunks \subseteq doc[e].chunks
                     /\ new[e].kb = doc[e].kb \/ new[e].kb = NoKb
                     /\ new[e].here => Present(e)
  BY <1>2, <1>3 DEF Present
<1>7. \A e \in Doc : /\ new[e].chunks \subseteq doc[e].chunks \cup pending[e]
                     /\ pending'[e] \subseteq pending[e]
                     /\ new[e].chunks \cap pending'[e] = {}
  BY <1>1, <1>4, <1>6
<1> QED  BY <1>1, <1>3, <1>5, <1>6, <1>7, ChangeIsFresh

-----------------------------------------------------------------------------
LEMMA FreshNext ==
    ASSUME IInv, FreshInv, Next
    PROVE  FreshInv'
<1>1. Documents /\ Attempts /\ Indexes /\ Calls
  BY DEF IInv
<1>2. ASSUME NEW c \in Call, \/ BeginAny(c) \/ BeginAsk(c) \/ Lookup(c) \/ Insert(c)
                             \/ UpdateMemberRole(c) \/ RemoveMember(c) \/ Search(c)
      PROVE  FreshInv'
  <2>1. UNCHANGED <<docs, pending, nextId, index, late>>
    BY <1>2 DEF BeginAny, BeginAsk, Begin, Lookup, Insert, UpdateMemberRole, RemoveMember, Search
  <2> QED  BY <2>1, UnchangedIsFresh DEF docs
<1>3. ASSUME NEW u \in User, NEW k \in Kb, CreateKb(u, k)
      PROVE  FreshInv'
  BY <1>3, UnchangedIsFresh DEF CreateKb, docs
<1>4. ASSUME NEW c \in Call, Upload(c)
      PROVE  FreshInv'
  <2>1. call[c].user \in User /\ call[c].kb \in Kb \cup {NoKb}
    BY <1>1, <1>4 DEF Upload, Checked, Calls, Request, Sound
  <2> QED  BY <1>1, <1>4, <2>1, StoreIsFresh DEF Upload
<1>5. ASSUME NEW d \in Doc, NEW u \in User, UploadPersonal(d, u)
      PROVE  FreshInv'
  BY <1>1, <1>5, StoreIsFresh DEF UploadPersonal
<1>6. CASE \E d \in Doc : (\E u \in User : UploadPersonal(d, u) \/ DeleteDocument(d, u))
                          \/ (\E n \in 1 .. MaxChunks : Allot(d, n)) \/ Commit(d)
  BY <1>1, <1>5, <1>6, DeleteDocumentIsFresh, AllotIsFresh, CommitIsFresh
<1>7. CASE \E c \in Call : BeginAny(c) \/ BeginAsk(c) \/ Lookup(c) \/ Insert(c) \/ UpdateMemberRole(c)
                            \/ RemoveMember(c) \/ DeleteKb(c) \/ Upload(c) \/ EnsureBm25(c) \/ Search(c)
  BY <1>1, <1>2, <1>4, <1>7, DeleteKbIsFresh, EnsureIsFresh
<1> QED  BY <1>3, <1>6, <1>7 DEF Next

LEMMA FreshInit == Init => FreshInv
<1> SUFFICES ASSUME Init PROVE FreshInv
  OBVIOUS
<1>1. \A s \in Scope : index[s].chunks = {}
  BY DEF Init, NoIndex
<1>2. \A d \in Doc : doc[d].chunks = {} /\ pending[d] = {}
  BY DEF Init, Absent
<1> QED  BY <1>1, <1>2 DEF FreshInv, Numbered, Owns, Unseen, Settled, Newer

LEMMA FreshInvariant == Spec => []FreshInv
<1>1. IInv /\ FreshInv /\ [Next]_vars => FreshInv'
  <2>1. FreshInv /\ UNCHANGED vars => FreshInv'
    BY UnchangedIsFresh DEF vars, docs
  <2> QED  BY <2>1, FreshNext
<1> QED  BY <1>1, FreshInit, Invariant, PTL DEF Spec

(* Only EnsureBm25 leads a question to its search. *)
LEMMA OnlyEnsure ==
    ASSUME Calls, Next, NEW c \in Call, call[c].at = "checked", call'[c].at = "search"
    PROVE  EnsureBm25(c)
<1>1. \A e \in Call : call[e] \in Request
  BY DEF Calls
<1>2. ASSUME NEW e \in Call, NEW x, call' = [call EXCEPT ![e] = x]
      PROVE  e = c /\ x.at = "search"
  BY <1>2 DEF Calls
<1>3. Over.at = "over"
  BY DEF Over, Free
<1>4. ASSUME NEW e \in Call, End(e)
      PROVE  FALSE
  BY <1>2, <1>3, <1>4 DEF End
<1>5. ASSUME NEW e \in Call, Lookup(e)
      PROVE  FALSE
  <2>1. call' = [call EXCEPT ![e] = [call[e] EXCEPT !.at = "insert"]] \/ End(e)
    BY <1>5 DEF Lookup
  <2>2. [call[e] EXCEPT !.at = "insert"].at = "insert"
    BY <1>1 DEF Request
  <2> QED  BY <1>2, <1>4, <2>1, <2>2
<1>6. ASSUME NEW e \in Call, BeginAny(e) \/ BeginAsk(e)
      PROVE  FALSE
  <2>1. PICK x : call' = [call EXCEPT ![e] = x] /\ x.at = "checked"
    BY <1>6 DEF BeginAny, BeginAsk, Begin
  <2> QED  BY <1>2, <2>1
<1>7. ASSUME NEW e \in Call, EnsureBm25(e)
      PROVE  e = c
  BY <1>7, <1>2 DEF EnsureBm25
<1>8. ASSUME UNCHANGED call PROVE FALSE
  BY <1>8
<1>9. CASE \E d \in Doc : (\E u \in User : UploadPersonal(d, u) \/ DeleteDocument(d, u))
                          \/ (\E n \in 1 .. MaxChunks : Allot(d, n)) \/ Commit(d)
  BY <1>8, <1>9 DEF UploadPersonal, DeleteDocument, Allot, Commit
<1>10. CASE \E e \in Call : BeginAny(e) \/ BeginAsk(e) \/ Lookup(e) \/ Insert(e) \/ UpdateMemberRole(e)
                            \/ RemoveMember(e) \/ DeleteKb(e) \/ Upload(e) \/ EnsureBm25(e) \/ Search(e)
  <2>1. PICK e \in Call : \/ BeginAny(e) \/ BeginAsk(e) \/ Lookup(e) \/ Insert(e) \/ UpdateMemberRole(e)
                          \/ RemoveMember(e) \/ DeleteKb(e) \/ Upload(e) \/ EnsureBm25(e) \/ Search(e)
    BY <1>10
  <2>2. CASE Insert(e) \/ UpdateMemberRole(e) \/ RemoveMember(e) \/ DeleteKb(e) \/ Upload(e) \/ Search(e)
    BY <1>4, <2>2 DEF Insert, UpdateMemberRole, RemoveMember, DeleteKb, Upload, Search
  <2> QED  BY <1>5, <1>6, <1>7, <2>1, <2>2
<1>11. CASE \E u \in User, k \in Kb : CreateKb(u, k)
  BY <1>8, <1>11 DEF CreateKb
<1> QED  BY <1>9, <1>10, <1>11 DEF Next

(* embeddings.py, 119: a question finds the index of the table as it is, unless
   chunks have come into its scope below the newest one.                   *)
THEOREM IndexIsFresh == Spec => FreshUnlessLate
<1> DEFINE Found(c) == call[c].at = "checked" /\ call'[c].at = "search" /\ ScopeOf(c) \notin late =>
                           index'[Key(ScopeOf(c))].chunks = ChunksIn(ScopeOf(c))
<1>1. ASSUME IInv, FreshInv, Next, NEW c \in Call,
             call[c].at = "checked", call'[c].at = "search", ScopeOf(c) \notin late
      PROVE  index'[Key(ScopeOf(c))].chunks = ChunksIn(ScopeOf(c))
  <2> DEFINE s == ScopeOf(c)
  <2>1. Documents /\ Indexes /\ Calls
    BY <1>1 DEF IInv
  <2>2. EnsureBm25(c) /\ s \in Scope
    BY <1>1, <2>1, OnlyEnsure, ScopeIsOne
  <2>3. \/ index' = index /\ Fingerprint(index[s].chunks) = Fingerprint(ChunksIn(s))
        \/ index' = [index EXCEPT ![s] = [built |-> TRUE, chunks |-> ChunksIn(s)]]
    BY <2>2 DEF EnsureBm25, Key
  <2>4. Key(s) = s /\ s \notin late
    BY <1>1 DEF Key
  <2> HIDE DEF s
  <2>5. ASSUME index' = index, Fingerprint(index[s].chunks) = Fingerprint(ChunksIn(s))
        PROVE  index'[s].chunks = ChunksIn(s)
    BY <1>1, <2>1, <2>2, <2>4, <2>5, FingerprintTells
  <2>6. ASSUME index' = [index EXCEPT ![s] = [built |-> TRUE, chunks |-> ChunksIn(s)]]
        PROVE  index'[s].chunks = ChunksIn(s)
    BY <2>1, <2>2, <2>4, <2>6 DEF Indexes
  <2>7. index'[Key(s)].chunks = ChunksIn(s)
    BY <2>3, <2>5, <2>6, <2>4
  <2> QED  BY <2>7 DEF s
<1>2. IInv /\ FreshInv /\ [Next]_vars => [\A c \in Call : Found(c)]_vars
  BY <1>1
<1> QED  BY <1>2, Invariant, FreshInvariant, PTL DEF Spec, FreshUnlessLate
=============================================================================
