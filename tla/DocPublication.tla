--------------------------- MODULE DocPublication ---------------------------
(***************************************************************************)
(* What the indexing pipeline promises to those who search: a document     *)
(* becomes indexed in one step that makes a non-empty set of points        *)
(* searchable, and that set stays as it is for as long as the document is  *)
(* shown as indexed.  Only a delete request may take the points away       *)
(* before the status changes, and it may fail after it has.                *)
(***************************************************************************)
CONSTANTS Doc, Point

VARIABLES
    shown,      \* the status of each document
    served,     \* the points a search over indexed documents can return
    purged      \* documents whose points a delete request has taken away

vars == <<shown, served, purged>>

Exists(d) == shown[d] \notin {"absent", "deleted"}

Init ==
    /\ shown = [d \in Doc |-> "absent"]
    /\ served = [d \in Doc |-> {}]
    /\ purged = {}

Create(d) ==
    /\ shown[d] = "absent"
    /\ shown' = [shown EXCEPT ![d] = "uploaded"]
    /\ UNCHANGED <<served, purged>>

(* An attempt begins, fails for now, or fails for good. *)
Withdraw(d) ==
    /\ Exists(d)
    /\ \E s \in {"indexing", "uploaded", "failed"} : shown' = [shown EXCEPT ![d] = s]
    /\ served' = [served EXCEPT ![d] = {}]
    /\ UNCHANGED purged

(* Any set of points may be published; a constraint on served'[d] rather than
   a choice from SUBSET Point, which need not be finite.                   *)
Publish(d) ==
    /\ Exists(d)
    /\ shown[d] # "indexed"
    /\ shown' = [shown EXCEPT ![d] = "indexed"]
    /\ served' = [served EXCEPT ![d] = served'[d]]
    /\ served'[d] \subseteq Point
    /\ served'[d] = {} => d \in purged
    /\ UNCHANGED purged

Purge(d) ==
    /\ purged' = purged \cup {d}
    /\ served' = [served EXCEPT ![d] = {}]
    /\ UNCHANGED shown

Delete(d) ==
    /\ Exists(d)
    /\ d \in purged
    /\ shown' = [shown EXCEPT ![d] = "deleted"]
    /\ served' = [served EXCEPT ![d] = {}]
    /\ UNCHANGED purged

(* A document that is not shown as indexed may go without more ado. *)
Discard(d) ==
    /\ Exists(d)
    /\ shown[d] # "indexed"
    /\ shown' = [shown EXCEPT ![d] = "deleted"]
    /\ UNCHANGED <<served, purged>>

Next == \E d \in Doc : \/ Create(d) \/ Withdraw(d) \/ Publish(d)
                       \/ Purge(d) \/ Delete(d) \/ Discard(d)

Spec == Init /\ [][Next]_vars
=============================================================================
