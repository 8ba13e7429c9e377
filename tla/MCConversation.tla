--------------------------- MODULE MCConversation ---------------------------
(* Instances of Conversation for TLC. *)
EXTENDS Conversation

(* Redis fails, commands are asked and the conversation is deleted after its
   last question in runs in which the requests follow one another.         *)
OneTrouble ==
    overlapped =>
        /\ faults = 0
        /\ conv = "deleted" => asked < MaxQuestions
        /\ \A i \in 1 .. Latest : msgs[i].size = "long"
=============================================================================
