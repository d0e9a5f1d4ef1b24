-------------------------- MODULE ReceiptLifecycle --------------------------
(***************************************************************************)
(* What the processing of a receipt promises to its owner, without queue,  *)
(* jobs, attempts or revisions.                                            *)
(*                                                                         *)
(*  - Every submission publishes at most one result, into a receipt whose  *)
(*    items are still the ones that were there when it was submitted, and  *)
(*    fills the header only where it is empty.                             *)
(*  - A completed receipt keeps its content; to change it is to reopen it. *)
(*  - Everything else that changes the content is an edit of the owner.    *)
(***************************************************************************)
CONSTANTS Items, Values, Empty

VARIABLES
    phase,    \* waiting, failed, review, completed or deleted
    items,
    header,
    agreed    \* the items of the last submission

vars == <<phase, items, header, agreed>>

Init ==
    /\ phase = "waiting"
    /\ items = {}
    /\ header = Empty
    /\ agreed = {}

Submit ==
    /\ phase \in {"failed", "review", "completed"}
    /\ phase' = "waiting"
    /\ agreed' = items
    /\ UNCHANGED <<items, header>>

Fail ==
    /\ phase = "waiting"
    /\ phase' = "failed"
    /\ UNCHANGED <<items, header, agreed>>

\* A later attempt of the same submission.
Resume ==
    /\ phase = "failed"
    /\ phase' = "waiting"
    /\ UNCHANGED <<items, header, agreed>>

Publish ==
    /\ phase \in {"waiting", "failed"}
    /\ items = agreed
    /\ phase' = "review"
    /\ items' \in SUBSET Items
    /\ header' # header => header = Empty
    /\ header' \in Values
    /\ UNCHANGED agreed

Edit ==
    /\ phase # "deleted"
    /\ phase' = IF phase = "completed" THEN "review" ELSE phase
    /\ items' \in SUBSET Items
    /\ header' \in Values
    /\ UNCHANGED agreed

Confirm ==
    /\ phase = "review"
    /\ items # {} /\ header # Empty
    /\ phase' = "completed"
    /\ UNCHANGED <<items, header, agreed>>

Delete ==
    /\ phase # "deleted"
    /\ phase' = "deleted"
    /\ items' = {} /\ header' = Empty /\ agreed' = {}

Next ==
    \/ Submit \/ Fail \/ Resume \/ Publish \/ Edit \/ Confirm \/ Delete

Spec == Init /\ [][Next]_vars
=============================================================================
