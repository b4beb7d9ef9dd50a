---------------------------- MODULE JobLifecycle ----------------------------
(***************************************************************************)
(* What the membership worker promises the panel about one order: the job  *)
(* moves from creation to a settlement, a verdict is final, and the panel  *)
(* hears of it once.  No items, workers, queues or faults; JobPipeline is  *)
(* shown to implement this.                                                *)
(***************************************************************************)
EXTENDS Naturals

VARIABLES
    status,  \* the job as the status endpoint shows it
    told     \* how often each settlement was handed over for the panel

vars == <<status, told>>

(* The settlement that reports a verdict. *)
Reports == [completed |-> "order_completed", partial |-> "order_partial", fail |-> "order_failed"]

Verdicts == {"completed", "partial", "fail"}

Init ==
    /\ status = "new"
    /\ told = [e \in {"order_completed", "order_partial", "order_failed"} |-> 0]

(* An order is taken, or fails at once when no account can serve it. *)
Accept ==
    /\ status = "new"
    /\ status' \in {"inprogress", "fail"}
    /\ UNCHANGED told

(* An open job is settled; a join with retention rests as active first. *)
Settle ==
    /\ status \in {"inprogress", "active"}
    /\ status' \in Verdicts \cup {"active"}
    /\ UNCHANGED told

(* The panel is told the verdict, the first thing it is told. *)
Tell ==
    /\ status \in Verdicts
    /\ \A e \in DOMAIN told : told[e] = 0
    /\ told' = [told EXCEPT ![Reports[status]] = 1]
    /\ UNCHANGED status

Next == Accept \/ Settle \/ Tell

Spec == Init /\ [][Next]_vars
=============================================================================
