-------------------------- MODULE MCKnowledgeBase --------------------------
(* An instance of KnowledgeBase for TLC; nothing in it orders users,
   documents or requests.                                                  *)
EXTENDS KnowledgeBase, TLC

KbSymmetry == Permutations(User) \cup Permutations(Doc) \cup Permutations(Call)

(* Memberships change beside at most one document, or the owner is the only
   member and there are more documents.                                    *)
MembersOrDocuments ==
    \/ /\ \A r \in members : r.role = "owner"
       /\ \A c \in Call : call[c].op \notin {"add", "update", "remove"}
    \/ Cardinality({d \in Doc : uploader[d] # NoUser}) <= 1
=============================================================================
