---------------------------- MODULE SavedReports ----------------------------
(***************************************************************************)
(* What monthly reports promise to their owner, without queries, retries   *)
(* and the model.                                                          *)
(*                                                                         *)
(*  - A request looks at the owner's data once, at one moment.             *)
(*  - It saves at most one report, which says in all its parts what was    *)
(*    seen then, and never one of data that no report can be made of.      *)
(*  - A request told that its report is created has saved it; one that     *)
(*    ended saves none later.                                              *)
(*  - Reports go with the account only, and none comes after it.           *)
(***************************************************************************)
CONSTANTS
    Requests,
    Contents,     \* of the owner's purchases and rules; Gone is that of
    Gone,         \* an account that was deleted
    Reportable,   \* contents of which a report can be made
    Parts         \* of a report

VARIABLES
    content,
    seen,         \* for each request: what it saw, at first nothing
    saved,
    outcome       \* of each request: open, created or ended

vars == <<content, seen, saved, outcome>>

Init ==
    /\ content \in Contents
    /\ seen = [r \in Requests |-> {}]
    /\ saved = {}
    /\ outcome = [r \in Requests |-> "open"]

Look(r) ==
    /\ outcome[r] = "open" /\ seen[r] = {}
    /\ seen' = [seen EXCEPT ![r] = {content}]
    /\ UNCHANGED <<content, saved, outcome>>

\* The request may end without knowing that its report is saved.
Save(r) ==
    /\ content # Gone
    /\ outcome[r] = "open"
    /\ \E c \in seen[r] \intersect Reportable :
          saved' = saved \union
                     {[request |-> r, input |-> [part \in Parts |-> c]]}
    /\ \E told \in {"created", "ended"} :
          outcome' = [outcome EXCEPT ![r] = told]
    /\ UNCHANGED <<content, seen>>

End(r) ==
    /\ outcome[r] = "open"
    /\ outcome' = [outcome EXCEPT ![r] = "ended"]
    /\ UNCHANGED <<content, seen, saved>>

Change ==
    /\ content # Gone
    /\ content' \in Contents \ {Gone}
    /\ UNCHANGED <<seen, saved, outcome>>

Delete ==
    /\ content # Gone
    /\ content' = Gone
    /\ saved' = {}
    /\ UNCHANGED <<seen, outcome>>

Next ==
    \/ \E r \in Requests : Look(r) \/ Save(r) \/ End(r)
    \/ Change \/ Delete

Spec == Init /\ [][Next]_vars
=============================================================================
